---- MODULE Spec2Model ----
(***************************************************************************)
(* Agent session and credential manager of the my-ideas backend:           *)
(*   app/core/errors.py, app/core/encryption.py,                           *)
(*   app/services/agent_credentials.py, app/services/agent_auth.py.        *)
(* The external services (Supabase auth, the user_profiles table, Fernet)  *)
(* are modelled by their documented behaviour; the outcome of every        *)
(* external call is an input of the step that makes it.                    *)
(***************************************************************************)
EXTENDS Integers, Sequences, FiniteSets, TLC

VARIABLES
    now,              \* time.time(), in seconds
    encryption_key,   \* settings.encryption_key (0 is the empty string)
    fernet,           \* lru_cache of get_fernet: <<>> or <<key>>
    user_profiles,    \* the user_profiles table: user_id -> row
    agent_sessions,   \* agent_auth._agent_sessions: user_id -> session
    issued,           \* number of sessions the auth service has issued
    last_refresh_time,\* auth_utils._last_refresh_time: token prefix -> time
    env,              \* settings.env
    query_rate_limit, \* routes/ai._query_rate_limit: user_id -> timestamps
    threads,          \* the calls in progress, one per thread
    auth_users,       \* auth.users: the ids of the human users signed up
    accepted,         \* the times of the /ai/query requests let through, by user
    chat_sessions,    \* routes/agent.py sessions: session_id -> conversation
    ops,              \* number of calls made so far
    prev,             \* the call before the last one
    last              \* the last call: its inputs, what it saw and its outcome

vars == <<now, encryption_key, fernet, user_profiles, agent_sessions, issued,
          last_refresh_time, env, query_rate_limit, threads, auth_users,
          accepted, chat_sessions, ops, prev, last>>

\* the state of the other modules
others == <<last_refresh_time, env, query_rate_limit, threads, auth_users,
           accepted, chat_sessions>>

----------------------------------------------------------------------------
(* Bounds of the model *)

MaxOps == 3          \* calls in one behaviour
MaxTime == 800       \* the clock stops here
MaxPwLen == 1        \* characters in an agent password

Users == {"u1", "u2"}
Alphabet == {0, 1}                 \* password characters
Keys == {1, 2}                     \* well-formed Fernet keys
IVs == {0, 1}                      \* os.urandom initialisation vectors
TickSteps == {400}
ExpiresIns == {0, 600}       \* session.expires_in; 0 stands for 0/None
TamperBytes == {0, 1}

SafetyMargin == 300

Passwords == UNION {[1..n -> Alphabet] : n \in 0..MaxPwLen}

Some(x) == <<x>>
Nothing == <<>>

----------------------------------------------------------------------------
(* app/core/errors.py *)

\* APIError.__init__(self, code, message, status_code=500, details=None),
\* called with the keyword arguments kwargs. Python raises TypeError for a
\* keyword the signature does not have or a required one that is missing.
APIError(kwargs) ==
    IF /\ DOMAIN kwargs \subseteq {"code", "message", "status_code", "details"}
       /\ {"code", "message"} \subseteq DOMAIN kwargs
    THEN [kind |-> "APIError",
          code |-> kwargs.code,
          status_code |-> IF "status_code" \in DOMAIN kwargs
                          THEN kwargs.status_code ELSE 500]
    ELSE [kind |-> "TypeError", code |-> "", status_code |-> 0]

Raise(exc) == [kind |-> exc.kind, code |-> exc.code,
               status_code |-> exc.status_code, value |-> Nothing]
Return(v) == [kind |-> "ok", code |-> "", status_code |-> 0, value |-> Some(v)]
ReturnNone == [kind |-> "none", code |-> "", status_code |-> 0, value |-> Nothing]

\* an exception of a library (postgrest, gotrue, httpx), not an APIError
LibraryError == [kind |-> "LibraryError", code |-> "", status_code |-> 0]

IsAPIError(r) == r.kind = "APIError"
IsException(r) == r.kind \notin {"ok", "none"}

----------------------------------------------------------------------------
(* app/core/encryption.py *)

RECURSIVE SeqNum(_)
SeqNum(s) == IF s = <<>> THEN 0 ELSE (s[1] + 1) + 3 * SeqNum(Tail(s))

\* HMAC of a Fernet token: a different key, iv or ciphertext gives a
\* different tag
Hmac(k, iv, body) == k + 4 * (iv + 2 * SeqNum(body))

FernetCipher(k, iv, data) == [i \in 1..Len(data) |-> (data[i] + k + iv) % 2]

\* Fernet(key).encrypt(data): version byte, iv, ciphertext, tag
FernetEncrypt(k, iv, data) ==
    <<128, iv>> \o FernetCipher(k, iv, data)
                \o <<Hmac(k, iv, FernetCipher(k, iv, data))>>

FernetBody(t) == SubSeq(t, 3, Len(t) - 1)

\* Fernet(key).decrypt(token): <<>> stands for InvalidToken
FernetDecrypt(k, t) ==
    IF \/ Len(t) < 3
       \/ t[1] # 128
       \/ t[2] \notin IVs
       \/ \E i \in 3..(Len(t) - 1) : t[i] \notin Alphabet
    THEN Nothing
    ELSE LET iv == t[2]
             body == FernetBody(t)
         IN IF t[Len(t)] # Hmac(k, iv, body)
            THEN Nothing
            ELSE Some([i \in 1..Len(body) |-> (body[i] + 4 - k - iv) % 2])

\* get_fernet(): [result, fernet] with the lru_cache after the call
get_fernet ==
    IF fernet # Nothing
    THEN [result |-> Return(fernet[1]), fernet |-> fernet]
    ELSE IF encryption_key = 0
    THEN [result |-> Raise(APIError([message |-> "Encryption key not configured",
                                     status_code |-> 500,
                                     error_code |-> "ENCRYPTION_KEY_MISSING"])),
          fernet |-> fernet]
    ELSE IF encryption_key \notin Keys
    THEN [result |-> Raise(APIError([message |-> "Encryption initialization failed",
                                     status_code |-> 500,
                                     error_code |-> "ENCRYPTION_INIT_ERROR"])),
          fernet |-> fernet]
    ELSE [result |-> Return(encryption_key), fernet |-> Some(encryption_key)]

encrypt_password_plain(password, iv) ==
    [result |-> Return(password), fernet |-> fernet]

\* encrypt_password(password) with the random iv
encrypt_password(password, iv) ==
    LET f == get_fernet IN
    IF IsException(f.result)
    THEN [result |-> Raise(APIError([message |-> "Password encryption failed",
                                     status_code |-> 500,
                                     error_code |-> "ENCRYPTION_ERROR"])),
          fernet |-> f.fernet]
    ELSE [result |-> Return(FernetEncrypt(f.result.value[1], iv, password)),
          fernet |-> f.fernet]

\* decrypt_password(encrypted)
decrypt_password(encrypted) ==
    LET f == get_fernet IN
    IF IsException(f.result)
    THEN [result |-> Raise(APIError([message |-> "Password decryption failed",
                                     status_code |-> 500,
                                     error_code |-> "DECRYPTION_ERROR"])),
          fernet |-> f.fernet]
    ELSE LET d == FernetDecrypt(f.result.value[1], encrypted) IN
         IF d = Nothing
         THEN [result |-> Raise(APIError([message |-> "Password decryption failed: Invalid credentials",
                                          status_code |-> 500,
                                          error_code |-> "DECRYPTION_INVALID_TOKEN"])),
               fernet |-> f.fernet]
         ELSE [result |-> Return(d[1]), fernet |-> f.fernet]

----------------------------------------------------------------------------
(* app/services/agent_credentials.py *)

\* generate_agent_email(user_id): f"agent_{user_id}@code45.internal"
generate_agent_email(user_id) == <<"agent_", user_id, "@code45.internal">>

\* a row of user_profiles as signup inserts it: no agent columns set
BlankRow == [agent_user_id |-> "", agent_credentials_encrypted |-> <<>>,
             agent_created_at |-> -1, agent_last_used_at |-> -1]

\* try: ... except APIError: raise; except Exception: raise APIError(kwargs)
Reraise(r, kwargs) == IF IsAPIError(r) THEN r ELSE Raise(APIError(kwargs))

\* store_agent_credentials run over the table `profiles`; db is the outcome
\* of the table call, iv the randomness of the encryption
store_credentials_in(profiles, user_id, agent_user_id, agent_password, iv, db) ==
    LET wrap == [message |-> "Failed to store agent credentials",
                 status_code |-> 500,
                 error_code |-> "AGENT_CREDENTIALS_STORE_ERROR"]
        enc == encrypt_password(agent_password, iv)
    IN
    IF IsException(enc.result)
    THEN [result |-> Reraise(enc.result, wrap), fernet |-> enc.fernet,
          calls |-> <<>>, user_profiles |-> profiles]
    ELSE IF db = "down"
    THEN [result |-> Reraise(Raise(LibraryError), wrap), fernet |-> enc.fernet,
          calls |-> <<<<"update", "down">>>>, user_profiles |-> profiles]
    ELSE IF user_id \notin DOMAIN profiles
    THEN \* the update matches no row: result.data is empty
         [result |-> Reraise(Raise(APIError(wrap)), wrap), fernet |-> enc.fernet,
          calls |-> <<<<"update", "no_row">>>>, user_profiles |-> profiles]
    ELSE [result |-> ReturnNone, fernet |-> enc.fernet,
          calls |-> <<<<"update", "row">>>>,
          user_profiles |->
              [profiles EXCEPT ![user_id] =
                  [@ EXCEPT !.agent_user_id = agent_user_id,
                            !.agent_credentials_encrypted = enc.result.value[1],
                            !.agent_created_at = now]]]

\* store_agent_credentials(user_id, agent_user_id, agent_password)
store_agent_credentials(user_id, agent_user_id, agent_password, iv, db) ==
    store_credentials_in(user_profiles, user_id, agent_user_id, agent_password,
                         iv, db)

\* get_agent_credentials(user_id); db is the outcome of the table call
get_agent_credentials(user_id, db) ==
    LET wrap == [message |-> "Failed to retrieve agent credentials",
                 status_code |-> 500,
                 error_code |-> "AGENT_CREDENTIALS_RETRIEVE_ERROR"]
    IN
    IF db = "down" \/ user_id \notin DOMAIN user_profiles
    THEN \* the request fails, or .single() finds no row and postgrest raises
         [result |-> Reraise(Raise(LibraryError), wrap), fernet |-> fernet,
          calls |-> <<<<"select", IF db = "down" THEN "down" ELSE "no_row">>>>]
    ELSE LET row == user_profiles[user_id]
             calls == <<<<"select", "row">>>>
         IN
         IF row.agent_user_id = "" \/ row.agent_credentials_encrypted = <<>>
         THEN [result |-> ReturnNone, fernet |-> fernet, calls |-> calls]
         ELSE LET dec == decrypt_password(row.agent_credentials_encrypted) IN
              IF IsException(dec.result)
              THEN [result |-> Reraise(dec.result, wrap), fernet |-> dec.fernet,
                    calls |-> calls]
              ELSE [result |-> Return(<<row.agent_user_id,
                                        generate_agent_email(user_id),
                                        dec.result.value[1]>>),
                    fernet |-> dec.fernet, calls |-> calls]

----------------------------------------------------------------------------
(* app/services/agent_auth.py *)

Put(f, k, v) == [x \in DOMAIN f \cup {k} |-> IF x = k THEN v ELSE f[x]]
Remove(f, k) == [x \in DOMAIN f \ {k} |-> f[x]]

\* the tokens of the n-th session the auth service issues, for the account sub
AccessToken(n, sub) == [typ |-> "access", jti |-> n, sub |-> sub]
RefreshToken(n, sub) == [typ |-> "refresh", jti |-> n, sub |-> sub]

\* session.expires_in or 3600
ExpiresInOr3600(expires_in) == IF expires_in = 0 THEN 3600 ELSE expires_in

\* what a call leaves behind, next to its result; calls lists the external
\* calls it made, each with its outcome
Out_dropped(result, sessions, f, n, profiles, calls) ==
    [result |-> result,
     sessions |-> IF result.kind \in {"ok", "none"} THEN sessions ELSE <<>>,
     fernet |-> f, issued |-> n, user_profiles |-> profiles, calls |-> calls]

Out(result, sessions, f, n, profiles, calls) ==
    [result |-> result, sessions |-> sessions, fernet |-> f, issued |-> n,
     user_profiles |-> profiles, calls |-> calls]

\* cached_session and cached_session["expires_at"] > time.time()
CacheValid_reversed(sessions, user_id) ==
    user_id \in DOMAIN sessions /\ sessions[user_id].expires_at < now

CacheValid(sessions, user_id) ==
    user_id \in DOMAIN sessions /\ sessions[user_id].expires_at > now

\* authenticate_agent_user(user_id), run with the cache `sessions`; e gives
\* the outcomes of the external calls it makes
authenticate_agent_user(sessions, user_id, e) ==
    LET wrap == [message |-> "Agent authentication error",
                 status_code |-> 500,
                 error_code |-> "AGENT_AUTH_ERROR"]
    IN
    IF CacheValid(sessions, user_id)
    THEN Out(Return(sessions[user_id]), sessions, fernet, issued,
             user_profiles, <<>>)
    ELSE
    LET c == get_agent_credentials(user_id, e.db) IN
    IF IsException(c.result)
    THEN Out(Reraise(c.result, wrap), sessions, c.fernet, issued,
             user_profiles, c.calls)
    ELSE IF c.result.kind = "none"
    THEN Out(Reraise(Raise(APIError([message |-> "Agent credentials not found for user",
                                     status_code |-> 404,
                                     error_code |-> "AGENT_CREDENTIALS_NOT_FOUND"])),
                     wrap),
             sessions, c.fernet, issued, user_profiles, c.calls)
    ELSE IF e.signin \in {"rejected", "unreachable"}
    THEN \* sign_in_with_password raises
         Out(Reraise(Raise(APIError([message |-> "Agent authentication failed",
                                     status_code |-> 401,
                                     error_code |-> "AGENT_AUTH_FAILED"])),
                     wrap),
             sessions, c.fernet, issued, user_profiles,
             Append(c.calls, <<"sign_in_with_password", e.signin>>))
    ELSE IF e.signin = "no_session"
    THEN Out(Reraise(Raise(APIError([message |-> "Agent authentication returned no session",
                                     status_code |-> 401,
                                     error_code |-> "AGENT_AUTH_NO_SESSION"])),
                     wrap),
             sessions, c.fernet, issued, user_profiles,
             Append(c.calls, <<"sign_in_with_password", e.signin>>))
    ELSE
    LET creds == c.result.value[1]
        session_data ==
            [access_token |-> AccessToken(issued + 1, creds[2]),
             refresh_token |-> RefreshToken(issued + 1, creds[2]),
             expires_at |-> now + ExpiresInOr3600(e.expires_in),
             agent_user_id |-> creds[1]]
    IN \* the agent_last_used_at update is in its own try: a failure is logged
       Out(Return(session_data), Put(sessions, user_id, session_data),
           c.fernet, issued + 1,
           IF e.touch = "ok"
           THEN [user_profiles EXCEPT ![user_id].agent_last_used_at = now]
           ELSE user_profiles,
           c.calls \o <<<<"sign_in_with_password", "ok">>,
                         <<"update", IF e.touch = "ok" THEN "row" ELSE "down">>>>)

\* the client get_agent_client builds: set_session(access_token,
\* refresh_token), client.user_id, client.agent_user_id
AgentClient_swapped(user_id, session) ==
    [access_token |-> session.access_token,
     refresh_token |-> session.refresh_token,
     user_id |-> session.agent_user_id,
     agent_user_id |-> user_id]

AgentClient(user_id, session) ==
    [access_token |-> session.access_token,
     refresh_token |-> session.refresh_token,
     user_id |-> user_id,
     agent_user_id |-> session.agent_user_id]

\* get_agent_client(user_id)
get_agent_client(user_id, e) ==
    LET wrap == [message |-> "Failed to create agent client",
                 status_code |-> 500,
                 error_code |-> "AGENT_CLIENT_ERROR"]
        a == authenticate_agent_user(agent_sessions, user_id, e)
    IN
    IF IsException(a.result)
    THEN [a EXCEPT !.result = Reraise(a.result, wrap)]
    ELSE IF e.client = "fail"
    THEN \* create_client or set_session raises
         [a EXCEPT !.result = Reraise(Raise(LibraryError), wrap),
                   !.calls = Append(@, <<"create_client", "fail">>)]
    ELSE [a EXCEPT !.result = Return(AgentClient(user_id, a.result.value[1])),
                   !.calls = Append(@, <<"create_client", "ok">>)]

\* revoke_agent_session(user_id) clearing the whole cache
revoke_agent_session_all(user_id) ==
    Out(ReturnNone, <<>>, fernet, issued, user_profiles, <<>>)

revoke_agent_session_kept(user_id) ==
    Out(ReturnNone, agent_sessions, fernet, issued, user_profiles, <<>>)

\* revoke_agent_session(user_id)
revoke_agent_session(user_id) ==
    IF user_id \in DOMAIN agent_sessions
    THEN Out(ReturnNone, Remove(agent_sessions, user_id), fernet, issued,
             user_profiles, <<>>)
    ELSE Out(ReturnNone, agent_sessions, fernet, issued, user_profiles, <<>>)

\* except Exception as e: raise APIError(kwargs), with no `except APIError`
\* before it
WrapAll(a, kwargs) ==
    IF IsException(a.result) THEN [a EXCEPT !.result = Raise(APIError(kwargs))]
    ELSE a

\* del _agent_sessions[user_id], before the fall back to a full sign-in
EvictForFallback_kept(sessions, user_id) == sessions

EvictForFallback(sessions, user_id) == Remove(sessions, user_id)

\* refresh_agent_session(user_id)
refresh_agent_session(user_id, e) ==
    LET wrap == [message |-> "Agent session refresh error",
                 status_code |-> 500,
                 error_code |-> "AGENT_SESSION_REFRESH_ERROR"]
    IN
    IF user_id \notin DOMAIN agent_sessions
    THEN WrapAll(authenticate_agent_user(agent_sessions, user_id, e), wrap)
    ELSE IF e.refresh \in {"raises", "no_session"}
    THEN \* del _agent_sessions[user_id]; return authenticate_agent_user(user_id)
         WrapAll([authenticate_agent_user(
                      EvictForFallback(agent_sessions, user_id), user_id, e)
                     EXCEPT !.calls = <<<<"refresh_session", e.refresh>>>> \o @],
                 wrap)
    ELSE
    LET cached_session == agent_sessions[user_id]
        sub == cached_session.refresh_token.sub
        session_data ==
            [access_token |-> AccessToken(issued + 1, sub),
             refresh_token |-> RefreshToken(issued + 1, sub),
             expires_at |-> now + ExpiresInOr3600(e.expires_in),
             agent_user_id |-> cached_session.agent_user_id]
    IN Out(Return(session_data), Put(agent_sessions, user_id, session_data),
           fernet, issued + 1, user_profiles,
           <<<<"refresh_session", "ok">>>>)

----------------------------------------------------------------------------
(* The outcomes of the external calls a step makes *)

NoEnv == [db |-> "ok", signin |-> "ok", expires_in |-> 0, refresh |-> "ok",
          client |-> "ok", touch |-> "ok"]

DbEnvs == {[NoEnv EXCEPT !.db = d] : d \in {"ok", "down"}}

SignInEnvs ==
    {[NoEnv EXCEPT !.expires_in = x] : x \in ExpiresIns}
    \cup {[NoEnv EXCEPT !.signin = s] :
             s \in {"rejected", "unreachable", "no_session"}}

AuthEnvs == SignInEnvs \cup {[NoEnv EXCEPT !.db = "down"]}

\* the same with the agent_last_used_at update failing
TouchEnvs == AuthEnvs \cup {[NoEnv EXCEPT !.touch = "fail"]}

ClientEnvs == AuthEnvs \cup {[NoEnv EXCEPT !.client = "fail"]}

RefreshEnvs ==
    AuthEnvs \cup {[f EXCEPT !.refresh = r] :
                      f \in AuthEnvs, r \in {"raises", "no_session"}}

----------------------------------------------------------------------------
(* Steps *)

NoCall == [op |-> "start", user |-> "", args |-> <<>>, time |-> 0,
           pre |-> Nothing, result |-> ReturnNone, calls |-> <<>>]

\* the number of calls of `name` among calls
RECURSIVE CountCalls(_, _)
CountCalls(calls, name) ==
    IF calls = <<>> THEN 0
    ELSE (IF calls[1][1] = name THEN 1 ELSE 0) + CountCalls(Tail(calls), name)

SignIns(calls) == CountCalls(calls, "sign_in_with_password")
RefreshCalls(calls) == CountCalls(calls, "refresh_session")

\* what is kept of the call before the last one
Summary(call) == [op |-> call.op, user |-> call.user, args |-> call.args,
                  pre |-> call.pre, result |-> call.result,
                  signIns |-> SignIns(call.calls)]

\* a row of user_profiles after signup stored the agent credentials
\* (a, p) under the key k
ProvisionedRow(a, p, iv, k) ==
    [BlankRow EXCEPT !.agent_user_id = a,
                     !.agent_credentials_encrypted = FernetEncrypt(k, iv, p),
                     !.agent_created_at = 0]

\* the agent account that signup created for a human user
AgentOf(u) == IF u = "u1" THEN "a1" ELSE "a2"

\* the rows the table can hold for u when the process starts: blank, or
\* provisioned under the key of the process
StartRows(u) == {BlankRow, ProvisionedRow(AgentOf(u), <<1>>, 0, 1)}

\* the module globals of auth_utils and routes/ai start empty, and no call is
\* in progress
OthersInit ==
    /\ last_refresh_time = <<>>
    /\ env = "local"
    /\ query_rate_limit = <<>>
    /\ threads = <<>>
    /\ auth_users = {}
    /\ accepted = <<>>
    /\ chat_sessions = <<>>

\* the process starts with the key 1 and an empty session cache, over a
\* table in which u2 is provisioned and u1 may have a profile and agent
\* credentials
Init ==
    /\ now = 0
    /\ encryption_key = 1
    /\ fernet = Nothing
    /\ \E S \in {{"u2"}, Users} :
           user_profiles \in {f \in [S -> UNION {StartRows(u) : u \in Users}] :
                                 /\ \A u \in S : f[u] \in StartRows(u)
                                 /\ f["u2"] # BlankRow}
    /\ agent_sessions = [u \in {} |-> NoCall]
    /\ issued = 0
    /\ OthersInit
    /\ ops = 0
    /\ prev = Summary(NoCall)
    /\ last = NoCall

\* the credential store on its own: every user has a blank profile
StoreInit ==
    /\ now = 0
    /\ encryption_key = 1
    /\ fernet = Nothing
    /\ user_profiles \in {[u \in S |-> BlankRow] : S \in {{"u1"}, Users}}
    /\ agent_sessions = [u \in {} |-> NoCall]
    /\ issued = 0
    /\ OthersInit
    /\ ops = 0
    /\ prev = Summary(NoCall)
    /\ last = NoCall

\* one call of a function of the service and what it leaves behind
Call(op, user_id, args, out) ==
    /\ ops < MaxOps
    /\ ops' = ops + 1
    /\ prev' = Summary(last)
    /\ last' = [op |-> op, user |-> user_id, args |-> args, time |-> now,
                pre |-> IF user_id \in DOMAIN agent_sessions
                        THEN Some(agent_sessions[user_id]) ELSE Nothing,
                result |-> out.result, calls |-> out.calls]
    /\ agent_sessions' = out.sessions
    /\ fernet' = out.fernet
    /\ issued' = out.issued
    /\ user_profiles' = out.user_profiles
    /\ UNCHANGED <<now, encryption_key, others>>

Authenticate ==
    \E u \in Users, e \in AuthEnvs :
        Call("authenticate_agent_user", u, <<>>,
             authenticate_agent_user(agent_sessions, u, e))

GetAgentClient ==
    \E u \in Users, e \in ClientEnvs :
        Call("get_agent_client", u, <<>>, get_agent_client(u, e))

Revoke ==
    \E u \in Users :
        Call("revoke_agent_session", u, <<>>, revoke_agent_session(u))

Refresh ==
    \E u \in Users, e \in RefreshEnvs :
        Call("refresh_agent_session", u, <<>>, refresh_agent_session(u, e))

StoreCredentials ==
    \E u \in Users, p \in Passwords, iv \in IVs, e \in DbEnvs :
        LET s == store_agent_credentials(u, AgentOf(u), p, iv, e.db) IN
        /\ e.db = "down" => (p = <<>> /\ iv = 0)
        /\ Call("store_agent_credentials", u, <<AgentOf(u), p>>,
                Out(s.result, agent_sessions, s.fernet, issued,
                    s.user_profiles, s.calls))

GetCredentials ==
    \E u \in Users, e \in DbEnvs :
        LET g == get_agent_credentials(u, e.db) IN
        Call("get_agent_credentials", u, <<>>,
             Out(g.result, agent_sessions, g.fernet, issued, user_profiles,
                 g.calls))

\* time passes
Tick ==
    \E d \in TickSteps :
        /\ now + d <= MaxTime
        /\ now' = now + d
        /\ UNCHANGED <<encryption_key, fernet, user_profiles, agent_sessions,
                       issued, others, ops, prev, last>>

\* the process restarts, possibly with another ENCRYPTION_KEY (0: not set,
\* 3: not a Fernet key): the module globals start empty again
Restart ==
    \E k \in {0, 3} \cup Keys :
        /\ ops < MaxOps
        /\ ops' = ops + 1
        /\ encryption_key' = k
        /\ fernet' = Nothing
        /\ agent_sessions' = [u \in {} |-> NoCall]
        /\ prev' = Summary(last)
        /\ last' = [NoCall EXCEPT !.op = "restart", !.time = now]
        /\ UNCHANGED <<now, user_profiles, issued, others>>

\* one byte of a stored ciphertext changes in the database
Tamper ==
    \E u \in DOMAIN user_profiles, v \in TamperBytes :
        LET t == user_profiles[u].agent_credentials_encrypted IN
        \E i \in 1..Len(t) :
            /\ ops < MaxOps
            /\ ops' = ops + 1
            /\ t[i] # v
            /\ user_profiles' =
                   [user_profiles EXCEPT
                       ![u].agent_credentials_encrypted = [t EXCEPT ![i] = v]]
            /\ prev' = Summary(last)
            /\ last' = [NoCall EXCEPT !.op = "tamper", !.user = u, !.time = now]
            /\ UNCHANGED <<now, encryption_key, fernet, agent_sessions, issued,
                           others>>

Next ==
    \/ Authenticate
    \/ GetAgentClient
    \/ Revoke
    \/ Refresh
    \/ Tick

Spec == Init /\ [][Next]_vars

StoreNext ==
    \/ StoreCredentials
    \/ GetCredentials
    \/ Tamper
    \/ Restart

SpecStore == StoreInit /\ [][StoreNext]_vars

----------------------------------------------------------------------------
(* Properties *)

AUTH == "authenticate_agent_user"
REFRESH == "refresh_agent_session"
REVOKE == "revoke_agent_session"
CLIENT == "get_agent_client"
STORE == "store_agent_credentials"
RETRIEVE == "get_agent_credentials"

IsOk(r) == r.kind = "ok"
IsError(r, status, code) ==
    r.kind = "APIError" /\ r.status_code = status /\ r.code = code

HasCall(calls, name, outcome) ==
    \E i \in 1..Len(calls) : calls[i] = <<name, outcome>>

\* the stored agent credentials of u can be retrieved and decrypted
CredentialsReadable(u) == IsOk(get_agent_credentials(u, "ok").result)

\* u has no stored agent credentials: no profile row, or a row without them
NotProvisioned(u) ==
    \/ u \notin DOMAIN user_profiles
    \/ user_profiles[u].agent_user_id = ""
    \/ user_profiles[u].agent_credentials_encrypted = <<>>

\* C1: two back-to-back authenticate_agent_user calls for the same user, the
\* second made while the session the first returned is still valid, return
\* the same access_token; the second call makes no sign-in, so a first call
\* that signed in leaves exactly one sign-in across the two.
C1_BackToBackResolve ==
    (/\ prev.op = AUTH /\ last.op = AUTH
     /\ prev.user = last.user
     /\ IsOk(prev.result)
     /\ prev.result.value[1].expires_at > last.time)
    => /\ IsOk(last.result)
       /\ last.result.value[1].access_token
              = prev.result.value[1].access_token
       /\ SignIns(last.calls) = 0
       /\ prev.signIns <= 1
       /\ (prev.pre # prev.result.value
           => prev.signIns + SignIns(last.calls) = 1)

C1_Witness ==
    /\ prev.op = AUTH /\ last.op = AUTH
    /\ prev.user = last.user
    /\ IsOk(prev.result) /\ IsOk(last.result)
    /\ prev.signIns = 1 /\ SignIns(last.calls) = 0
    /\ last.result.value[1].access_token = prev.result.value[1].access_token

\* C2: authenticate_agent_user returns a cached session without a sign-in
\* only when that session expires more than the safety margin after the
\* time of the call.
C2_CachedOnlyBeyondMargin ==
    (last.op = AUTH /\ IsOk(last.result) /\ SignIns(last.calls) = 0)
    => /\ last.pre # Nothing
       /\ last.pre[1].expires_at > last.time + SafetyMargin

\* C3: with a cached session and readable credentials, a refresh whose
\* token exchange raises or returns no session evicts the entry and makes
\* one password sign-in; when that sign-in succeeds the caller gets the new
\* session, with a new access_token, and the cache holds it.
C3_RefreshFallsBack ==
    /\ \A u \in DOMAIN agent_sessions, e \in RefreshEnvs :
        (e.refresh # "ok" /\ e.db = "ok" /\ CredentialsReadable(u))
        => LET r == refresh_agent_session(u, e)
               old == agent_sessions[u]
           IN /\ RefreshCalls(r.calls) = 1
              /\ SignIns(r.calls) = 1
              /\ (u \in DOMAIN r.sessions => r.sessions[u] # old)
              /\ \A v \in DOMAIN agent_sessions \ {u} :
                     v \in DOMAIN r.sessions /\ r.sessions[v] = agent_sessions[v]
              /\ e.signin = "ok"
                 => /\ IsOk(r.result)
                    /\ r.result.value[1].access_token # old.access_token
                    /\ u \in DOMAIN r.sessions
                    /\ r.sessions[u] = r.result.value[1]
    /\ (/\ last.op = REFRESH /\ last.pre # Nothing
        /\ ~HasCall(last.calls, "refresh_session", "ok")
        /\ HasCall(last.calls, "sign_in_with_password", "ok"))
       => /\ IsOk(last.result)
          /\ last.result.value[1].access_token # last.pre[1].access_token
          /\ last.user \in DOMAIN agent_sessions
          /\ agent_sessions[last.user] = last.result.value[1]

C3_Witness ==
    /\ last.op = REFRESH
    /\ last.pre # Nothing
    /\ HasCall(last.calls, "refresh_session", "raises")
    /\ SignIns(last.calls) = 1
    /\ IsOk(last.result)
    /\ last.result.value[1].access_token # last.pre[1].access_token
    /\ agent_sessions[last.user] = last.result.value[1]

\* C4: authenticate_agent_user for a user with no cached session and no
\* stored credentials fails with the 404 AGENT_CREDENTIALS_NOT_FOUND
\* APIError and makes no sign-in.
C4_CredentialsNotFound ==
    (/\ last.op = AUTH /\ last.pre = Nothing
     /\ NotProvisioned(last.user)
     /\ ~HasCall(last.calls, "select", "down"))
    => /\ IsError(last.result, 404, "AGENT_CREDENTIALS_NOT_FOUND")
       /\ SignIns(last.calls) = 0

\* C5: when the password sign-in fails, rejected credentials surface as the
\* 401 AGENT_AUTH_FAILED error and an unreachable service as the 500
\* AGENT_AUTH_ERROR error: never the same error class for both.
C5_SignInFailureClasses ==
    /\ (last.op = AUTH /\ HasCall(last.calls, "sign_in_with_password", "rejected"))
       => IsError(last.result, 401, "AGENT_AUTH_FAILED")
    /\ (last.op = AUTH /\ HasCall(last.calls, "sign_in_with_password", "unreachable"))
       => IsError(last.result, 500, "AGENT_AUTH_ERROR")

\* C6: for a user with no cached session refresh_agent_session has the
\* outcome of authenticate_agent_user from the same state: the same session
\* or the same error (not-found stays 404, a failed sign-in stays 401), the
\* same sign-ins, no refresh call and the same cache.
C6_RefreshLikeResolve ==
    /\ \A u \in Users \ DOMAIN agent_sessions, e \in AuthEnvs :
           /\ refresh_agent_session(u, e)
                  = authenticate_agent_user(agent_sessions, u, e)
           /\ RefreshCalls(refresh_agent_session(u, e).calls) = 0
    /\ (/\ last.op = REFRESH /\ last.pre = Nothing
        /\ NotProvisioned(last.user)
        /\ ~HasCall(last.calls, "select", "down"))
       => IsError(last.result, 404, "AGENT_CREDENTIALS_NOT_FOUND")
    /\ (/\ last.op = REFRESH /\ last.pre = Nothing
        /\ SignIns(last.calls) = 1 /\ ~IsOk(last.result))
       => last.result.kind = "APIError" /\ last.result.status_code = 401

\* C7: revoke_agent_session removes the user's cache entry and nothing
\* else, without an error or an external call; the authenticate_agent_user
\* that follows it is never served from the cache: it signs in whenever the
\* credentials can be read, and a session it returns comes from that
\* sign-in and is not the revoked one.
C7_Revoke ==
    /\ \A u \in Users :
           LET r == revoke_agent_session(u) IN
           /\ r.result = ReturnNone
           /\ r.calls = <<>>
           /\ u \notin DOMAIN r.sessions
           /\ \A v \in Users \ {u} :
                  /\ v \in DOMAIN r.sessions <=> v \in DOMAIN agent_sessions
                  /\ v \in DOMAIN r.sessions => r.sessions[v] = agent_sessions[v]
    /\ last.op = REVOKE
       => last.user \notin DOMAIN agent_sessions /\ last.calls = <<>>
    /\ (prev.op = REVOKE /\ last.op = AUTH /\ prev.user = last.user)
       => /\ last.pre = Nothing
          /\ (CredentialsReadable(last.user)
              /\ ~HasCall(last.calls, "select", "down"))
             => SignIns(last.calls) = 1
          /\ IsOk(last.result)
             => /\ SignIns(last.calls) = 1
                /\ last.result.value # prev.pre

C7_Witness ==
    /\ prev.op = REVOKE /\ last.op = AUTH
    /\ prev.user = last.user
    /\ prev.pre # Nothing
    /\ IsOk(last.result) /\ SignIns(last.calls) = 1
    /\ last.result.value[1].access_token # prev.pre[1].access_token

\* C8: a client get_agent_client(u) returns carries the access token of
\* the session authenticate_agent_user(u) returns in that call, a token
\* issued to u's agent account, and is tagged with u and that session's
\* agent_user_id; the call goes through authenticate_agent_user each time.
C8_ClientBoundToSession ==
    /\ \A u \in Users, e \in ClientEnvs :
           LET c == get_agent_client(u, e)
               a == authenticate_agent_user(agent_sessions, u, e)
           IN IsOk(c.result)
              => /\ IsOk(a.result)
                 /\ c.result.value[1].access_token
                        = a.result.value[1].access_token
                 /\ c.result.value[1].access_token.sub = generate_agent_email(u)
                 /\ c.result.value[1].user_id = u
                 /\ c.result.value[1].agent_user_id
                        = a.result.value[1].agent_user_id
                 /\ c.sessions = a.sessions
                 /\ SignIns(c.calls) = SignIns(a.calls)
    /\ (last.op = CLIENT /\ IsOk(last.result))
       => /\ last.user \in DOMAIN agent_sessions
          /\ last.result.value[1]
                 = [access_token |-> agent_sessions[last.user].access_token,
                    refresh_token |-> agent_sessions[last.user].refresh_token,
                    user_id |-> last.user,
                    agent_user_id |-> agent_sessions[last.user].agent_user_id]
          /\ last.result.value[1].agent_user_id
                 = user_profiles[last.user].agent_user_id

C8_Witness ==
    /\ last.op = CLIENT /\ IsOk(last.result)
    /\ SignIns(last.calls) = 0
    /\ \E v \in DOMAIN agent_sessions : v # last.user
    /\ last.result.value[1].access_token.sub = generate_agent_email(last.user)
    /\ last.result.value[1].user_id = last.user

\* C9: store_agent_credentials(u, a, p) followed by get_agent_credentials(u)
\* under the same key returns (a, agent_u@code45.internal, p): decrypting
\* what encrypt_password returned gives the password back, and the stored
\* ciphertext is never the plaintext.
C9_StoreThenRetrieve ==
    /\ \A p \in Passwords, iv \in IVs :
           LET enc == encrypt_password(p, iv) IN
           IsOk(enc.result)
           => /\ enc.result.value[1] # p
              /\ decrypt_password(enc.result.value[1]).result = Return(p)
    /\ (last.op = STORE /\ last.result = ReturnNone)
       => user_profiles[last.user].agent_credentials_encrypted # last.args[2]
    /\ (/\ prev.op = STORE /\ prev.result = ReturnNone
        /\ last.op = RETRIEVE /\ prev.user = last.user
        /\ ~HasCall(last.calls, "select", "down"))
       => last.result = Return(<<prev.args[1],
                                 generate_agent_email(last.user),
                                 prev.args[2]>>)

C9_Witness ==
    /\ prev.op = STORE /\ prev.result = ReturnNone
    /\ last.op = RETRIEVE /\ prev.user = last.user
    /\ prev.args[2] # <<>>
    /\ last.result = Return(<<prev.args[1], generate_agent_email(last.user),
                              prev.args[2]>>)

\* C10: get_agent_credentials for a user whose stored ciphertext does not
\* decrypt under the configured key (tampered with, or encrypted under
\* another key) fails with the 500 DECRYPTION_INVALID_TOKEN APIError, never
\* with a tuple or None.
C10_InvalidCiphertext ==
    (/\ last.op = RETRIEVE
     /\ HasCall(last.calls, "select", "row")
     /\ ~NotProvisioned(last.user)
     /\ encryption_key \in Keys
     /\ FernetDecrypt(encryption_key,
            user_profiles[last.user].agent_credentials_encrypted) = Nothing)
    => IsError(last.result, 500, "DECRYPTION_INVALID_TOKEN")

\* C11: get_agent_credentials for a user with no stored credential (no
\* profile row, or a row without agent_user_id or ciphertext) returns None
\* and raises nothing.
C11_RetrieveNotFound ==
    (/\ last.op = RETRIEVE
     /\ NotProvisioned(last.user)
     /\ ~HasCall(last.calls, "select", "down"))
    => last.result = ReturnNone

\* C12: with no encryption key configured, encrypt_password and
\* decrypt_password fail with the 500 ENCRYPTION_KEY_MISSING APIError at
\* every use, and so does the store_agent_credentials call that encrypts.
C12_KeyMissing ==
    (last.op = STORE /\ encryption_key = 0)
    => /\ IsError(last.result, 500, "ENCRYPTION_KEY_MISSING")
       /\ \A p \in Passwords, iv \in IVs :
              IsError(encrypt_password(p, iv).result, 500,
                      "ENCRYPTION_KEY_MISSING")
       /\ \A u \in DOMAIN user_profiles :
              IsError(decrypt_password(
                          user_profiles[u].agent_credentials_encrypted).result,
                      500, "ENCRYPTION_KEY_MISSING")

----------------------------------------------------------------------------
(* app/api/auth_utils.py and app/api/routes/auth.py: the human session.    *)
(* In the specifications of this part the clock `now` counts ticks of      *)
(* 1/TicksPerSecond seconds, so that time.time() takes fractional values.  *)

REFRESH_COOLDOWN_SECONDS == 5
TicksPerSecond == 2
MaxClock == 12                     \* the clock of this part stops here
MaxRequests == 2                   \* requests in one behaviour

HumanTickSteps == {3, 8}           \* 1.5 s and 4 s
Envs == {"local", "production", "Production"}

\* the refresh tokens a browser can present, and the tokens of the session
\* the auth service issues
RefreshTokens == {"p1x", "p1y", "p2x"}
NewAccessToken == "a_new"
NewRefreshToken == "p3z"

\* refresh_token[:20]
Prefix20(t) ==
    IF t \in {"p1x", "p1y"} THEN "p1"
    ELSE IF t = "p2x" THEN "p2"
    ELSE IF t = "p3z" THEN "p3"
    ELSE t

\* int(x) of a number of seconds given in ticks
IntSeconds(ticks) == ticks \div TicksPerSecond

\* settings.env.lower()
Lower(s) == IF s = "Production" THEN "production" ELSE s

\* _cookie_config()
cookie_config ==
    LET is_production == Lower(env) = "production" IN
    [httponly |-> TRUE,
     secure |-> is_production,
     samesite |-> IF is_production THEN "none" ELSE "lax",
     path |-> "/"]

\* response.set_cookie(key=, value=, max_age=, **config)
set_cookie(key, value, max_age, config) ==
    [key |-> key, value |-> value, max_age |-> max_age,
     httponly |-> config.httponly, secure |-> config.secure,
     samesite |-> config.samesite, path |-> config.path]

\* _set_auth_cookies(response, access_token, refresh_token, expires_in)
set_auth_cookies_same(access_token, refresh_token, expires_in) ==
    <<set_cookie("access_token", access_token, expires_in, cookie_config),
      set_cookie("refresh_token", refresh_token, expires_in, cookie_config)>>

set_auth_cookies(access_token, refresh_token, expires_in) ==
    <<set_cookie("access_token", access_token, expires_in, cookie_config),
      set_cookie("refresh_token", refresh_token, expires_in * 24,
                 cookie_config)>>

\* raise HTTPException(status_code=, detail=)
HTTPException(status_code, detail) ==
    [kind |-> "HTTPException", code |-> detail, status_code |-> status_code,
     value |-> Nothing]

\* HTTPException(429, f"Please wait {n} seconds before refreshing")
PleaseWait(n) ==
    [Raise(HTTPException(429, "Please wait N seconds before refreshing"))
        EXCEPT !.value = Some(n)]

\* what a handler leaves behind: its result, the cooldown table, the
\* external calls it made, the cookies it set on the response and the
\* refresh token it presented ("" when it did not get that far)
HumanOut(result, lrt, calls, cookies, presented) ==
    [result |-> result, last_refresh_time |-> lrt, calls |-> calls,
     cookies |-> cookies, presented |-> presented]

\* the cooldown test of get_current_user, never ending once started
InCooldown_forever(user_key) == user_key \in DOMAIN last_refresh_time

\* the cooldown test of get_current_user
InCooldown(user_key) ==
    /\ user_key \in DOMAIN last_refresh_time
    /\ now - last_refresh_time[user_key]
           < REFRESH_COOLDOWN_SECONDS * TicksPerSecond

\* get_current_user(request, response): access is the access token of the
\* request ("" when it has none), refresh_token its refresh_token cookie
\* ("" when it has none), e the outcomes of the external calls
get_current_user(access, refresh_token, e) ==
    IF access = ""
    THEN HumanOut(Raise(HTTPException(401, "Not authenticated")),
                  last_refresh_time, <<>>, <<>>, "")
    ELSE IF e.get_user = "ok"
    THEN HumanOut(Return([id |-> e.user, token |-> access]),
                  last_refresh_time, <<<<"get_user", "ok">>>>, <<>>, "")
    ELSE \* get_user raised or returned no user: except Exception
    LET first == <<<<"get_user", e.get_user>>>>
        user_key == Prefix20(refresh_token)
    IN
    IF refresh_token = ""
    THEN HumanOut(Raise(HTTPException(401,
                            "Token expired and no refresh token available")),
                  last_refresh_time, first, <<>>, "")
    ELSE IF InCooldown(user_key)
    THEN HumanOut(PleaseWait(
                      REFRESH_COOLDOWN_SECONDS
                          - IntSeconds(now - last_refresh_time[user_key])),
                  last_refresh_time, first, <<>>, refresh_token)
    ELSE IF e.refresh # "ok"
    THEN HumanOut(Raise(HTTPException(401, "Authentication failed")),
                  last_refresh_time,
                  Append(first, <<"refresh_session", e.refresh>>), <<>>,
                  refresh_token)
    ELSE HumanOut(Return([id |-> e.user, token |-> NewAccessToken]),
                  Put(last_refresh_time, user_key, now),
                  Append(first, <<"refresh_session", "ok">>),
                  set_auth_cookies(NewAccessToken, NewRefreshToken,
                                   ExpiresInOr3600(e.expires_in)),
                  refresh_token)

\* POST /auth/refresh: refresh_session(request, response)
refresh_session(refresh_token, e) ==
    IF refresh_token = ""
    THEN HumanOut(Raise(HTTPException(401, "No refresh token available")),
                  last_refresh_time, <<>>, <<>>, "")
    ELSE IF e.refresh = "raises"
    THEN HumanOut(Raise(HTTPException(401, "Refresh failed")),
                  last_refresh_time, <<<<"refresh_session", "raises">>>>,
                  <<>>, refresh_token)
    ELSE IF e.refresh = "no_session"
    THEN HumanOut(Raise(HTTPException(401, "Failed to refresh session")),
                  last_refresh_time, <<<<"refresh_session", "no_session">>>>,
                  <<>>, refresh_token)
    ELSE HumanOut(Return([expiresAt |->
                             (now * 1000) \div TicksPerSecond
                                 + ExpiresInOr3600(e.expires_in) * 1000]),
                  last_refresh_time, <<<<"refresh_session", "ok">>>>,
                  set_auth_cookies(NewAccessToken, NewRefreshToken,
                                   ExpiresInOr3600(e.expires_in)),
                  refresh_token)

\* POST /auth/login: login(credentials, response)
login(e) ==
    IF e.sign_in = "invalid"
    THEN HumanOut(Raise(HTTPException(401, "Invalid email or password")),
                  last_refresh_time, <<<<"sign_in_with_password", "invalid">>>>,
                  <<>>, "")
    ELSE IF e.sign_in = "locked"
    THEN HumanOut(Raise(HTTPException(403, "Account is locked or disabled")),
                  last_refresh_time, <<<<"sign_in_with_password", "locked">>>>,
                  <<>>, "")
    ELSE IF e.sign_in = "error"
    THEN HumanOut(Raise(HTTPException(500, "Login failed")),
                  last_refresh_time, <<<<"sign_in_with_password", "error">>>>,
                  <<>>, "")
    ELSE IF e.sign_in = "no_session"
    THEN HumanOut(Raise(HTTPException(401, "Invalid email or password")),
                  last_refresh_time,
                  <<<<"sign_in_with_password", "no_session">>>>, <<>>, "")
    ELSE HumanOut(Return([id |-> e.user, accessToken |-> NewAccessToken,
                          expiresAt |->
                              (now * 1000) \div TicksPerSecond
                                  + ExpiresInOr3600(e.expires_in) * 1000]),
                  last_refresh_time, <<<<"sign_in_with_password", "ok">>>>,
                  set_auth_cookies(NewAccessToken, NewRefreshToken,
                                   ExpiresInOr3600(e.expires_in)),
                  "")

\* agent_email, agent_password = agent_creds
Unpack2(t) ==
    IF Len(t) = 2 THEN Return(t)
    ELSE [kind |-> "ValueError", code |-> "", status_code |-> 0,
          value |-> Nothing]

\* logout: try: ... except Exception as e: print(...), then
\* return MessageResponse(message="Logged out successfully")
LogoutResult_raised(inner) ==
    IF IsException(inner) THEN inner ELSE Return("Logged out successfully")

LogoutResult(inner) == Return("Logged out successfully")

\* the body of logout's `if access_token:` block: [result, calls, fernet]
logout_body(e) ==
    IF e.get_user = "raises"
    THEN [result |-> Raise(LibraryError), fernet |-> fernet,
          calls |-> <<<<"get_user", "raises">>>>]
    ELSE IF e.get_user = "no_user"
    THEN [result |-> ReturnNone, fernet |-> fernet,
          calls |-> <<<<"get_user", "no_user">>>>]
    ELSE
    LET first == <<<<"get_user", "ok">>, <<"sign_out", e.sign_out>>>>
        g == get_agent_credentials(e.user, e.db)
    IN
    IF IsException(g.result)
    THEN [result |-> g.result, fernet |-> g.fernet, calls |-> first \o g.calls]
    ELSE IF g.result.kind = "none"
    THEN [result |-> ReturnNone, fernet |-> g.fernet,
          calls |-> first \o g.calls]
    ELSE LET two == Unpack2(g.result.value[1]) IN
         IF IsException(two)
         THEN [result |-> two, fernet |-> g.fernet, calls |-> first \o g.calls]
         ELSE \* sign the agent in, then out; a failure is only printed
              [result |-> ReturnNone, fernet |-> g.fernet,
               calls |-> first \o g.calls
                   \o <<<<"sign_in_with_password", e.sign_in>>>>
                   \o (IF e.sign_in = "ok"
                       THEN <<<<"sign_out", e.sign_out>>>> ELSE <<>>)]

\* POST /auth/logout: logout(request, response); access is the access_token
\* cookie ("" when there is none)
logout(access, e) ==
    LET cleared == <<set_cookie("access_token", "", 0, cookie_config),
                     set_cookie("refresh_token", "", 0, cookie_config)>>
        b == IF access = ""
             THEN [result |-> ReturnNone, fernet |-> fernet, calls |-> <<>>]
             ELSE logout_body(e)
    IN [result |-> LogoutResult(b.result), last_refresh_time |-> last_refresh_time,
        calls |-> b.calls, cookies |-> cleared, presented |-> "",
        fernet |-> b.fernet]

\* POST /auth/signup: signup(credentials, response) for the human user
\* user_id with the generated agent password and the encryption iv;
\* [result, calls, cookies, fernet, user_profiles, auth_users]
signup(user_id, agent_password, iv, e) ==
    LET fail(status, detail, outcome) ==
            [result |-> Raise(HTTPException(status, detail)),
             calls |-> <<<<"sign_up", outcome>>>>, cookies |-> <<>>,
             fernet |-> fernet, user_profiles |-> user_profiles,
             auth_users |-> auth_users]
    IN
    IF e.sign_up = "exists" THEN fail(400, "Email already exists", "exists")
    ELSE IF e.sign_up = "error" THEN fail(500, "Signup failed", "error")
    ELSE IF e.sign_up = "no_user"
    THEN fail(500, "Failed to create user account", "no_user")
    ELSE IF e.sign_up = "no_session"
    THEN [fail(500, "No session returned from signup", "no_session")
             EXCEPT !.auth_users = auth_users \cup {user_id}]
    ELSE
    LET expires_in == ExpiresInOr3600(e.expires_in)
        \* Step 2: the profile row; a failure is only printed
        inserted == e.insert = "ok" /\ user_id \notin DOMAIN user_profiles
        profiles == IF inserted THEN Put(user_profiles, user_id, BlankRow)
                    ELSE user_profiles
        \* Step 4: the agent account; a failure is only printed
        has_agent == e.agent_sign_up = "ok"
        \* Step 5: the credentials; a failure is only printed
        st == IF has_agent
              THEN store_credentials_in(profiles, user_id, AgentOf(user_id),
                                        agent_password, iv, e.db)
              ELSE [result |-> ReturnNone, fernet |-> fernet, calls |-> <<>>,
                    user_profiles |-> profiles]
    IN [result |-> Return([id |-> user_id, accessToken |-> NewAccessToken,
                           expiresAt |->
                               (now * 1000) \div TicksPerSecond
                                   + expires_in * 1000]),
        calls |-> <<<<"sign_up", "ok">>,
                    <<"insert", IF inserted THEN "ok" ELSE "fail">>,
                    <<"agent_sign_up", e.agent_sign_up>>>> \o st.calls,
        cookies |-> set_auth_cookies(NewAccessToken, NewRefreshToken,
                                     expires_in),
        fernet |-> st.fernet,
        user_profiles |-> st.user_profiles,
        auth_users |-> auth_users \cup {user_id}]

----------------------------------------------------------------------------
(* The outcomes of the external calls of the human-session handlers *)

HumanNoEnv == [user |-> "u1", get_user |-> "ok", refresh |-> "ok",
               expires_in |-> 0, sign_in |-> "ok", sign_out |-> "ok",
               db |-> "ok", sign_up |-> "ok", insert |-> "ok",
               agent_sign_up |-> "ok"]

ForUsers(envs) == {[f EXCEPT !.user = u] : f \in envs, u \in Users}

CurrentUserEnvs ==
    {HumanNoEnv}
    \cup {[HumanNoEnv EXCEPT !.get_user = g, !.refresh = r, !.expires_in = x] :
             g \in {"no_user", "raises"},
             r \in {"ok", "raises", "no_session"}, x \in ExpiresIns}

PostRefreshEnvs ==
    {[HumanNoEnv EXCEPT !.refresh = r, !.expires_in = x] :
        r \in {"ok", "raises", "no_session"}, x \in ExpiresIns}

LoginEnvs ==
    {[HumanNoEnv EXCEPT !.expires_in = x] : x \in ExpiresIns}
    \cup {[HumanNoEnv EXCEPT !.sign_in = s] :
             s \in {"invalid", "locked", "error", "no_session"}}

LogoutEnvs ==
    ForUsers({HumanNoEnv}
             \cup {[HumanNoEnv EXCEPT !.get_user = g] :
                      g \in {"no_user", "raises"}}
             \cup {[HumanNoEnv EXCEPT !.sign_out = "raises"],
                   [HumanNoEnv EXCEPT !.db = "down"],
                   [HumanNoEnv EXCEPT !.sign_in = "error"]})

SignupEnvs ==
    {[HumanNoEnv EXCEPT !.expires_in = x] : x \in ExpiresIns}
    \cup {[HumanNoEnv EXCEPT !.sign_up = s] :
             s \in {"exists", "error", "no_user", "no_session"}}
    \cup {[HumanNoEnv EXCEPT !.insert = "fail"],
          [HumanNoEnv EXCEPT !.agent_sign_up = "raises"],
          [HumanNoEnv EXCEPT !.agent_sign_up = "no_user"],
          [HumanNoEnv EXCEPT !.db = "down"]}

----------------------------------------------------------------------------
(* Steps of the human-session handlers *)

GET_CURRENT_USER == "get_current_user"
POST_REFRESH == "refresh_session"
LOGIN == "login"
LOGOUT == "logout"
SIGNUP == "signup"

HumanNoCall ==
    [op |-> "start", user |-> "", args |-> <<>>, time |-> 0, pre |-> Nothing,
     result |-> ReturnNone, calls |-> <<>>, cookies |-> <<>>,
     presented |-> ""]

\* one request served by a handler and what it leaves behind
HumanCall(op, user_id, args, out, f, profiles, users) ==
    /\ ops < MaxRequests
    /\ ops' = ops + 1
    /\ last' = [op |-> op, user |-> user_id, args |-> args, time |-> now,
                pre |-> Nothing, result |-> out.result, calls |-> out.calls,
                cookies |-> out.cookies, presented |-> out.presented]
    /\ last_refresh_time' = out.last_refresh_time
    /\ fernet' = f
    /\ user_profiles' = profiles
    /\ auth_users' = users
    /\ UNCHANGED <<now, encryption_key, agent_sessions, issued, env,
                   query_rate_limit, threads, accepted, chat_sessions, prev>>

GetCurrentUser ==
    \E access \in {"", "a_old"}, rt \in {""} \cup RefreshTokens,
       e \in CurrentUserEnvs :
        /\ access = "" => (rt = "" /\ e = HumanNoEnv)
        /\ HumanCall(GET_CURRENT_USER, "", <<access, rt>>,
                     get_current_user(access, rt, e), fernet, user_profiles,
                     auth_users)

PostRefresh ==
    \E rt \in {""} \cup RefreshTokens, e \in PostRefreshEnvs :
        /\ rt = "" => e = HumanNoEnv
        /\ HumanCall(POST_REFRESH, "", <<"", rt>>, refresh_session(rt, e),
                     fernet, user_profiles, auth_users)

Login ==
    \E e \in LoginEnvs :
        /\ HumanCall(LOGIN, "", <<>>, login(e), fernet, user_profiles,
                     auth_users)

Logout ==
    \E access \in {"", "a_old"}, e \in LogoutEnvs :
        LET out == logout(access, e) IN
        /\ access = "" => e = HumanNoEnv
        /\ HumanCall(LOGOUT, IF access = "" THEN "" ELSE e.user, <<access>>,
                     out, out.fernet, user_profiles, auth_users)

Signup ==
    \E u \in Users, p \in Passwords \ {<<>>}, iv \in IVs, e \in SignupEnvs :
        LET out == signup(u, p, iv, e) IN
        /\ e.sign_up \in {"ok", "no_session"} => u \notin auth_users
        /\ e.sign_up = "exists" => u \in auth_users
        /\ HumanCall(SIGNUP, u, <<AgentOf(u), p>>,
                     [result |-> out.result,
                      last_refresh_time |-> last_refresh_time,
                      calls |-> out.calls, cookies |-> out.cookies,
                      presented |-> ""],
                     out.fernet, out.user_profiles, out.auth_users)

\* time passes
HumanTick ==
    \E d \in HumanTickSteps :
        /\ now + d <= MaxClock
        /\ now' = now + d
        /\ UNCHANGED <<encryption_key, fernet, user_profiles, agent_sessions,
                       issued, others, ops, prev, last>>

\* the process starts in an environment of Envs with empty tables
HumanInit ==
    /\ now = 0
    /\ encryption_key = 1
    /\ fernet = Nothing
    /\ user_profiles = <<>>
    /\ agent_sessions = <<>>
    /\ issued = 0
    /\ last_refresh_time = <<>>
    /\ env \in Envs
    /\ query_rate_limit = <<>>
    /\ threads = <<>>
    /\ auth_users = {}
    /\ accepted = <<>>
    /\ chat_sessions = <<>>
    /\ ops = 0
    /\ prev = Summary(NoCall)
    /\ last = HumanNoCall

\* the refresh paths of the human session, with the clock
CooldownNext ==
    \/ GetCurrentUser
    \/ PostRefresh
    \/ HumanTick

SpecCooldown == HumanInit /\ [][CooldownNext]_vars

\* the handlers that write the auth cookies
CookieNext ==
    \/ Signup
    \/ Login
    \/ Logout
    \/ GetCurrentUser
    \/ PostRefresh

SpecCookies == HumanInit /\ [][CookieNext]_vars

----------------------------------------------------------------------------
(* Properties of the human session *)

IsRefreshAttempt(call) ==
    call.op \in {GET_CURRENT_USER, POST_REFRESH} /\ call.presented # ""

IsHTTPError(r, status) == r.kind = "HTTPException" /\ r.status_code = status

\* C13: of two consecutive human-session refresh attempts that present the
\* same refresh token less than REFRESH_COOLDOWN_SECONDS apart, through
\* get_current_user or POST /auth/refresh, the second is rejected with 429
\* "wait N seconds", N > 0, and makes no refresh_session call.
C13_Cooldown ==
    [][(/\ ops' = ops + 1
        /\ IsRefreshAttempt(last) /\ IsRefreshAttempt(last')
        /\ last'.presented = last.presented
        /\ last'.time - last.time < REFRESH_COOLDOWN_SECONDS * TicksPerSecond)
       => /\ IsHTTPError(last'.result, 429)
          /\ last'.result.value # Nothing
          /\ last'.result.value[1] > 0
          /\ RefreshCalls(last'.calls) = 0]_vars

\* the values of settings.env that name the production environment
ProductionEnvs == {"production", "Production"}

\* a cookie with the attributes the environment asks for
HasAuthCookieAttributes(c) ==
    /\ c.httponly = TRUE
    /\ c.path = "/"
    /\ c.secure = (env \in ProductionEnvs)
    /\ c.samesite = (IF env \in ProductionEnvs THEN "none" ELSE "lax")

\* the handler issued tokens to the browser
IssuedTokens(call) ==
    /\ IsOk(call.result)
    /\ \/ call.op \in {SIGNUP, LOGIN, POST_REFRESH}
       \/ call.op = GET_CURRENT_USER /\ RefreshCalls(call.calls) = 1

\* C14: every auth cookie a handler writes is httpOnly with path "/", secure
\* exactly in production and SameSite none in production, lax otherwise;
\* when tokens are issued the access_token cookie lives expires_in seconds
\* and the refresh_token cookie 24 times that; logout writes both cookies
\* empty with max-age 0.
C14_AuthCookies ==
    /\ \A i \in 1..Len(last.cookies) : HasAuthCookieAttributes(last.cookies[i])
    /\ last.cookies # <<>>
       => /\ Len(last.cookies) = 2
          /\ last.cookies[1].key = "access_token"
          /\ last.cookies[2].key = "refresh_token"
    /\ (last.op # "start" /\ IssuedTokens(last))
       => /\ Len(last.cookies) = 2
          /\ last.cookies[1].value = NewAccessToken
          /\ last.cookies[2].value = NewRefreshToken
          /\ last.cookies[1].max_age
                 \in {ExpiresInOr3600(x) : x \in ExpiresIns}
          /\ last.cookies[2].max_age = 24 * last.cookies[1].max_age
          /\ last.op # GET_CURRENT_USER
             => last.result.value[1].expiresAt
                    = (last.time * 1000) \div TicksPerSecond
                          + last.cookies[1].max_age * 1000
    /\ (last.op # "start" /\ last.op # LOGOUT /\ ~IssuedTokens(last))
       => last.cookies = <<>>
    /\ last.op = LOGOUT
       => /\ Len(last.cookies) = 2
          /\ \A i \in 1..2 : /\ last.cookies[i].value = ""
                             /\ last.cookies[i].max_age = 0

C14_Witness ==
    /\ last.op = GET_CURRENT_USER
    /\ IssuedTokens(last)
    /\ env = "Production"
    /\ Len(last.cookies) = 2
    /\ last.cookies[2].secure
    /\ last.cookies[2].samesite = "none"
    /\ last.cookies[2].max_age = 24 * 600

\* C16: after a signup that returns success for u the credential store
\* holds an agent identity for u: agent_user_id and an encrypted password
\* that get_agent_credentials(u) can read.
C16_SignupProvisions ==
    (last.op = SIGNUP /\ IsOk(last.result))
    => /\ last.user \in DOMAIN user_profiles
       /\ ~NotProvisioned(last.user)
       /\ user_profiles[last.user].agent_user_id = AgentOf(last.user)
       /\ CredentialsReadable(last.user)

----------------------------------------------------------------------------
(* Best-effort steps: logout next to the agent authentication *)

\* authenticate_agent_user, the timestamp update failing or not
AuthenticateTouch ==
    \E u \in Users, e \in TouchEnvs :
        Call("authenticate_agent_user", u, <<>>,
             authenticate_agent_user(agent_sessions, u, e))

LogoutNext ==
    \/ Logout
    \/ AuthenticateTouch
    \/ Tick

SpecLogout == Init /\ [][LogoutNext]_vars

\* C17: logout returns "Logged out successfully" and clears both auth
\* cookies whatever fails among token validation, sign-out, credential
\* retrieval and the agent sign-in; authenticate_agent_user caches and
\* returns the new session when the agent_last_used_at update fails.
C17_BestEffort ==
    /\ \A access \in {"", "a_old"}, e \in LogoutEnvs :
           LET out == logout(access, e) IN
           /\ out.result = Return("Logged out successfully")
           /\ Len(out.cookies) = 2
           /\ \A i \in 1..2 : out.cookies[i].value = ""
                              /\ out.cookies[i].max_age = 0
    /\ last.op = LOGOUT
       => /\ last.result = Return("Logged out successfully")
          /\ Len(last.cookies) = 2
          /\ last.cookies[1].key = "access_token"
          /\ last.cookies[2].key = "refresh_token"
          /\ \A i \in 1..2 : last.cookies[i].value = ""
                             /\ last.cookies[i].max_age = 0
    /\ (last.op = AUTH /\ HasCall(last.calls, "update", "down"))
       => /\ IsOk(last.result)
          /\ last.user \in DOMAIN agent_sessions
          /\ agent_sessions[last.user] = last.result.value[1]

\* a logout whose agent step failed after the credentials were read, after
\* an authentication whose timestamp update failed
C17_Witness ==
    /\ last.op = LOGOUT
    /\ HasCall(last.calls, "select", "row")
    /\ ~HasCall(last.calls, "sign_in_with_password", "ok")
    /\ last.result = Return("Logged out successfully")
    /\ \E u \in DOMAIN agent_sessions : user_profiles[u].agent_last_used_at = -1

----------------------------------------------------------------------------
(* app/db/supabase_client.py: retry_on_transient_error *)

MaxAttempts == 3                   \* largest max_attempts argument
Backoffs == {0, 1, 2}              \* backoff_seconds arguments; 0 is None
supabase_retry_attempts == 3
supabase_retry_backoff_seconds == 1

\* the exceptions the wrapped call can raise: class, HTTP status (0 when
\* it has none) and the words of str(e)
ErrReadTimeout == [cls |-> "TimeoutError", status |-> 0,
                   words |-> <<"Read", "Timeout">>]
Err503 == [cls |-> "HTTPError", status |-> 503, words |-> <<"HTTP", "503">>]
ErrUnavailable == [cls |-> "HTTPError", status |-> 0,
                   words |-> <<"Service", "Unavailable">>]
ErrConnection == [cls |-> "ConnectionError", status |-> 0,
                  words |-> <<"Connection", "refused">>]
\* get_admin_client / get_user_client without their environment variables
ErrMissingConfig == [cls |-> "ValueError", status |-> 0,
                     words |-> <<"Missing", "required", "environment",
                                 "variables">>]
ErrBadRequest == [cls |-> "HTTPError", status |-> 400,
                  words |-> <<"Bad", "Request">>]
ErrTooMany == [cls |-> "HTTPError", status |-> 429,
               words |-> <<"Too", "many", "connections">>]
ErrServer == [cls |-> "HTTPError", status |-> 500,
              words |-> <<"Internal", "Server", "Error">>]

Errors == {ErrReadTimeout, Err503, ErrUnavailable, ErrConnection,
           ErrMissingConfig, ErrBadRequest, ErrTooMany, ErrServer}

\* what one invocation of the wrapped call does
Returns(v) == [kind |-> "ok", value |-> v]
Raises(e) == [kind |-> "raise", exc |-> e]
Outcomes == {Returns("client")} \cup {Raises(e) : e \in Errors}

\* str.lower() of one word
LowerWord(w) ==
    CASE w = "Read" -> "read" [] w = "Timeout" -> "timeout"
      [] w = "HTTP" -> "http" [] w = "Service" -> "service"
      [] w = "Unavailable" -> "unavailable" [] w = "Connection" -> "connection"
      [] w = "Missing" -> "missing" [] w = "Bad" -> "bad"
      [] w = "Request" -> "request" [] w = "Too" -> "too"
      [] w = "Internal" -> "internal" [] w = "Server" -> "server"
      [] w = "Error" -> "error"
      [] OTHER -> w

\* pattern in word, for the words of Errors
InWord(pattern, w) ==
    \/ w = pattern
    \/ pattern = "connection" /\ w = "connections"

\* pattern in error_str, for a pattern of one word
InStr(pattern, ws) == \E i \in 1..Len(ws) : InWord(pattern, ws[i])

\* is_transient of the wrapper, computed from str(e).lower()
is_transient(e) ==
    LET error_str == [i \in 1..Len(e.words) |-> LowerWord(e.words[i])] IN
    \/ InStr("timeout", error_str)
    \/ InStr("503", error_str)
    \/ \E i \in 1..(Len(error_str) - 1) :
           error_str[i] = "service" /\ error_str[i + 1] = "unavailable"
    \/ InStr("connection", error_str)

\* 2 ** n
RECURSIVE Pow2(_)
Pow2(n) == IF n = 0 THEN 1 ELSE 2 * Pow2(n - 1)

\* time.sleep(wait_time) after a failed attempt that is not the last
SleepAfter_always(sleeps, attempt, max_attempts, backoff_seconds) ==
    Append(sleeps, backoff_seconds * Pow2(attempt - 1))

SleepAfter(sleeps, attempt, max_attempts, backoff_seconds) ==
    IF attempt < max_attempts
    THEN Append(sleeps, backoff_seconds * Pow2(attempt - 1))
    ELSE sleeps

\* the loop of wrapper from `attempt` on; script[k] is what the k-th
\* invocation of func does; [result, invocations, sleeps]
RECURSIVE RetryLoop(_, _, _, _, _)
RetryLoop(attempt, max_attempts, backoff_seconds, script, sleeps) ==
    IF attempt > max_attempts
    THEN \* raise last_exception
         [result |-> script[max_attempts], invocations |-> max_attempts,
          sleeps |-> sleeps]
    ELSE IF script[attempt].kind = "ok"
    THEN [result |-> script[attempt], invocations |-> attempt,
          sleeps |-> sleeps]
    ELSE IF ~is_transient(script[attempt].exc)
    THEN [result |-> script[attempt], invocations |-> attempt,
          sleeps |-> sleeps]
    ELSE RetryLoop(attempt + 1, max_attempts, backoff_seconds, script,
                   SleepAfter(sleeps, attempt, max_attempts, backoff_seconds))

\* max_attempts or settings.supabase_retry_attempts
AttemptsOrDefault(max_attempts) ==
    IF max_attempts = 0 THEN supabase_retry_attempts ELSE max_attempts

\* backoff_seconds or settings.supabase_retry_backoff_seconds
BackoffOrDefault(backoff_seconds) ==
    IF backoff_seconds = 0 THEN supabase_retry_backoff_seconds
    ELSE backoff_seconds

\* retry_on_transient_error(max_attempts, backoff_seconds)(func)()
retry_on_transient_error(max_attempts, backoff_seconds, script) ==
    RetryLoop(1, AttemptsOrDefault(max_attempts),
              BackoffOrDefault(backoff_seconds), script, <<>>)

RETRY == "retry_on_transient_error"

\* nothing wrapped has been called yet
RetryInit ==
    /\ now = 0
    /\ encryption_key = 1
    /\ fernet = Nothing
    /\ user_profiles = <<>>
    /\ agent_sessions = <<>>
    /\ issued = 0
    /\ OthersInit
    /\ ops = 0
    /\ prev = Summary(NoCall)
    /\ last = [op |-> "start", args |-> <<>>, result |-> Returns(""),
               invocations |-> 0, sleeps |-> <<>>]

\* the scripts of a wrapped call, long enough for every number of attempts
Scripts ==
    LET n == IF MaxAttempts > supabase_retry_attempts
             THEN MaxAttempts ELSE supabase_retry_attempts
    IN [1..n -> Outcomes]

\* the one call of a wrapped function that a behaviour makes
RetryCall ==
    \E m \in 0..MaxAttempts, b \in Backoffs, script \in Scripts :
        LET out == retry_on_transient_error(m, b, script) IN
        /\ ops = 0
        /\ ops' = ops + 1
        /\ last' = [op |-> RETRY, args |-> <<m, b, script>>,
                    result |-> out.result, invocations |-> out.invocations,
                    sleeps |-> out.sleeps]
        /\ UNCHANGED <<now, encryption_key, fernet, user_profiles,
                       agent_sessions, issued, others, prev>>

RetryNext == RetryCall

SpecRetry == RetryInit /\ [][RetryNext]_vars

\* the errors whose message contains "timeout", "503", "service
\* unavailable" or "connection", whatever the case of the letters
TransientErrors == {ErrReadTimeout, Err503, ErrUnavailable, ErrConnection,
                    ErrTooMany}

\* the client errors and the missing-configuration error
ClientErrors == {e \in Errors : e.status >= 400 /\ e.status <= 499}
                    \cup {ErrMissingConfig}

KeepsFailing(script, n) ==
    \A k \in 1..n : script[k].kind = "raise" /\ script[k].exc \in TransientErrors

\* C18: a wrapped call that keeps raising transient errors is invoked
\* max_attempts times, with a sleep of backoff_seconds * 2^(k-1) after the
\* failed attempt k < max_attempts and none after the last, and the last
\* exception is raised; when attempt k succeeds after transient failures its
\* result is returned after k invocations and k - 1 sleeps.
C18_RetryTransient ==
    last.op = RETRY
    => LET m == AttemptsOrDefault(last.args[1])
           b == BackoffOrDefault(last.args[2])
           script == last.args[3]
       IN /\ KeepsFailing(script, m)
             => /\ last.invocations = m
                /\ last.sleeps = [k \in 1..(m - 1) |-> b * Pow2(k - 1)]
                /\ last.result = Raises(script[m].exc)
          /\ \A k \in 1..m :
                 (KeepsFailing(script, k - 1) /\ script[k].kind = "ok")
                 => /\ last.invocations = k
                    /\ last.sleeps = [j \in 1..(k - 1) |-> b * Pow2(j - 1)]
                    /\ last.result = script[k]

C18_Witness ==
    /\ last.op = RETRY
    /\ last.args[1] = 3 /\ last.args[2] = 2
    /\ KeepsFailing(last.args[3], 3)
    /\ last.invocations = 3
    /\ last.sleeps = <<2, 4>>
    /\ last.result = Raises(ErrTooMany)

\* C19: a wrapped call whose first invocation raises a non-transient error
\* (the missing-configuration error, any 4xx client error) has that error
\* re-raised after this one invocation, with no sleep.
C19_NoRetryOnClientError ==
    (/\ last.op = RETRY
     /\ last.args[3][1].kind = "raise"
     /\ last.args[3][1].exc \in ClientErrors)
    => /\ last.invocations = 1
       /\ last.sleeps = <<>>
       /\ last.result = last.args[3][1]

----------------------------------------------------------------------------
(* The rate limit of POST /ai/query (api/routes/ai.py); here the clock
   counts seconds *)

RATE_LIMIT_WINDOW == 60
RATE_LIMIT_MAX_QUERIES == 10

MaxQueries == 12          \* requests in one behaviour
MaxOtherQueries == 1      \* entries a user other than u1 has in the table
MaxRateTime == 60
RateTickSteps == {30}

QUERY == "query_database"

\* the llm and the query it generates: process_query_request returns or
\* raises
LlmOutcomes == {"ok", "fail"}

\* the agent authentication of a query succeeds or finds the database down
QueryEnvs == {NoEnv, [NoEnv EXCEPT !.db = "down"]}

\* the list kept for a user, [] when the user is not in the table
Entries(table, user_id) ==
    IF user_id \in DOMAIN table THEN table[user_id] ELSE <<>>

\* now - ts < RATE_LIMIT_WINDOW with the test left out: nothing is dropped
Fresh_all(ts) == TRUE

\* now - ts < RATE_LIMIT_WINDOW
Fresh(ts) == now - ts < RATE_LIMIT_WINDOW

\* len(_query_rate_limit[user_id]) >= RATE_LIMIT_MAX_QUERIES
AtLimit_above(kept) == Len(kept) > RATE_LIMIT_MAX_QUERIES

AtLimit(kept) == Len(kept) >= RATE_LIMIT_MAX_QUERIES

\* check_rate_limit(user_id): the answer and the table it leaves
check_rate_limit(user_id) ==
    LET kept == SelectSeq(Entries(query_rate_limit, user_id), Fresh) IN
    IF AtLimit(kept)
    THEN [ok |-> FALSE, table |-> Put(query_rate_limit, user_id, kept)]
    ELSE [ok |-> TRUE,
          table |-> Put(query_rate_limit, user_id, Append(kept, now))]

RateLimitExceeded ==
    Raise(HTTPException(429, "Rate limit exceeded: 10 queries per minute"))

QueryFailed == Raise(HTTPException(500, "Query processing failed"))

\* the body of query_database after the rate limit answered chk; c is what
\* get_agent_client does when it is reached
query_result(chk, c, llm) ==
    IF ~chk.ok
    THEN [out |-> Out(RateLimitExceeded, agent_sessions, fernet, issued,
                      user_profiles, <<>>),
          ok |-> FALSE, table |-> chk.table]
    ELSE IF IsException(c.result)
    THEN [out |-> [c EXCEPT !.result = QueryFailed],
          ok |-> TRUE, table |-> chk.table]
    ELSE [out |-> [c EXCEPT !.result = IF llm = "ok" THEN Return("QueryResult")
                                       ELSE QueryFailed,
                            !.calls = Append(@, <<"process_query_request",
                                                  llm>>)],
          ok |-> TRUE, table |-> chk.table]

\* query_database(request, query_request, current_user): the rate limit,
\* then the agent client, then process_query_request
query_database(user_id, e, llm) ==
    query_result(check_rate_limit(user_id), get_agent_client(user_id, e), llm)

\* every user has an agent identity; nobody has sent a query
RateInit ==
    /\ now = 0
    /\ encryption_key = 1
    /\ fernet = Nothing
    /\ user_profiles = [u \in Users |-> ProvisionedRow(AgentOf(u), <<1>>, 0, 1)]
    /\ agent_sessions = [u \in {} |-> NoCall]
    /\ issued = 0
    /\ OthersInit
    /\ ops = 0
    /\ prev = Summary(NoCall)
    /\ last = NoCall

\* the outcomes that are not reached are left at their defaults
QueryInputs(q, e, llm) ==
    /\ ~q.ok => (e = NoEnv /\ llm = "ok")
    /\ ~HasCall(q.out.calls, "process_query_request", llm) => llm = "ok"

\* one query served: q is what query_database did
QueryCall(u, e, llm, q) ==
    /\ ops < MaxQueries
    /\ QueryInputs(q, e, llm)
    /\ ops' = ops + 1
    /\ last' = [op |-> QUERY, user |-> u, args |-> <<>>, time |-> now,
                pre |-> Some(Entries(accepted, u)),
                result |-> q.out.result, calls |-> q.out.calls]
    /\ query_rate_limit' = q.table
    /\ accepted' = IF q.ok THEN Put(accepted, u,
                                    Append(Entries(accepted, u), now))
                   ELSE accepted
    /\ agent_sessions' = q.out.sessions
    /\ fernet' = q.out.fernet
    /\ issued' = q.out.issued
    /\ user_profiles' = q.out.user_profiles
    /\ UNCHANGED <<now, encryption_key, last_refresh_time, env, threads,
                   chat_sessions,
                   auth_users, prev>>

\* POST /ai/query by an authenticated user
Query ==
    \E u \in Users, e \in QueryEnvs, llm \in LlmOutcomes :
        /\ u # "u1" => Len(Entries(query_rate_limit, u)) < MaxOtherQueries
        /\ QueryCall(u, e, llm, query_database(u, e, llm))

RateTick ==
    \E d \in RateTickSteps :
        /\ now + d <= MaxRateTime
        /\ now' = now + d
        /\ UNCHANGED <<encryption_key, fernet, user_profiles, agent_sessions,
                       issued, others, ops, prev, last>>

RateNext == Query \/ RateTick

SpecRate == RateInit /\ [][RateNext]_vars

\* the requests of `history` accepted during the 60 seconds ending at t
AcceptedIn(history, t) ==
    {i \in DOMAIN history :
        history[i] <= t /\ t - history[i] < RATE_LIMIT_WINDOW}

Is429(r) == r.kind = "HTTPException" /\ r.status_code = 429

\* C20: for every user and every instant t, at most 10 requests of that user
\* were accepted during the 60 seconds ending at t; a request that arrives
\* when 10 requests of its user were accepted in the preceding 60 seconds is
\* rejected with 429 before any call to the agent authentication or the
\* llm, and a request of a user with fewer than 10 is not rejected with 429
\* whatever the other users have sent
C20_RateLimit ==
    /\ \A u \in DOMAIN accepted : \A t \in 0..MaxRateTime :
           Cardinality(AcceptedIn(accepted[u], t)) <= RATE_LIMIT_MAX_QUERIES
    /\ last.op = QUERY
       => LET before == Cardinality(AcceptedIn(last.pre[1], last.time)) IN
          /\ before >= RATE_LIMIT_MAX_QUERIES
             => (Is429(last.result) /\ last.calls = <<>>)
          /\ before < RATE_LIMIT_MAX_QUERIES => ~Is429(last.result)

\* u1 is turned away with 429 while u2, who has sent queries in the same
\* minute, is not at the limit
C20_Witness ==
    /\ last.op = QUERY
    /\ last.user = "u1"
    /\ Is429(last.result)
    /\ last.calls = <<>>
    /\ Cardinality(AcceptedIn(last.pre[1], last.time)) = RATE_LIMIT_MAX_QUERIES
    /\ "u2" \in DOMAIN accepted
    /\ AcceptedIn(accepted["u2"], now) # {}
    /\ now > 0

\* C30: a rejected request does not consume quota: a request of a user is
\* accepted whenever fewer than 10 requests of that user were accepted in the
\* preceding 60 seconds, however many were rejected; and after a call of
\* check_rate_limit for a user every timestamp stored for that user is less
\* than 60 seconds old, at most 10 are stored, and they are the accepted
\* requests of the window
C30_RejectedIsFree ==
    last.op = QUERY
    => LET u == last.user
           stored == Entries(query_rate_limit, u)
           before == Cardinality(AcceptedIn(last.pre[1], last.time))
       IN
       /\ before < RATE_LIMIT_MAX_QUERIES
          => (~Is429(last.result) /\ accepted[u] = Append(last.pre[1], last.time))
       /\ Len(stored) <= RATE_LIMIT_MAX_QUERIES
       /\ \A i \in DOMAIN stored :
              /\ stored[i] <= last.time
              /\ last.time - stored[i] < RATE_LIMIT_WINDOW
       /\ Len(stored) = Cardinality(AcceptedIn(Entries(accepted, u), last.time))

\* u1 was turned away, the window moved on, and the next request of u1 is
\* accepted with the ten old timestamps gone
C30_Witness ==
    /\ last.op = QUERY
    /\ last.user = "u1"
    /\ ~Is429(last.result)
    /\ last.time = RATE_LIMIT_WINDOW
    /\ Len(last.pre[1]) = RATE_LIMIT_MAX_QUERIES
    /\ "u2" \notin DOMAIN accepted
    /\ ops = RATE_LIMIT_MAX_QUERIES + 2
    /\ query_rate_limit["u1"] = <<last.time>>

----------------------------------------------------------------------------
(* Concurrent calls of agent_auth.py for one user. A thread runs one call;
   a step is what the call does up to and including its next external
   call, so the threads interleave at the external calls *)

MaxThreads == 3

Threads == 1..MaxThreads

\* the provisioned user all the calls are for
RaceUser == "u1"

\* a thread before its call
IdleThread ==
    [op |-> "", pc |-> "idle", local |-> Nothing, result |-> ReturnNone]

\* the call of a thread returns or raises
Finish(thread, result) == [thread EXCEPT !.pc = "done", !.result = result]

\* the outcomes of refresh_session
RefreshOutcomes == {"ok", "raises", "no_session"}

\* the session a sign-in or a refresh builds from the n-th issued tokens
SessionData(n, sub, expires_in, agent_user_id) ==
    [access_token |-> AccessToken(n, sub),
     refresh_token |-> RefreshToken(n, sub),
     expires_at |-> now + ExpiresInOr3600(expires_in),
     agent_user_id |-> agent_user_id]

\* the first lines of authenticate_agent_user: return the cached session, or
\* go on to get_agent_credentials
EnterAuthenticate(thread) ==
    IF CacheValid(agent_sessions, RaceUser)
    THEN Finish(thread, Return(agent_sessions[RaceUser]))
    ELSE [thread EXCEPT !.pc = "credentials"]

\* del _agent_sessions[user_id] raises KeyError when the entry is gone, and
\* the except Exception of refresh_agent_session turns it into APIError(...)
RefreshError ==
    Raise(APIError([message |-> "Agent session refresh error",
                    status_code |-> 500,
                    error_code |-> "AGENT_SESSION_REFRESH_ERROR"]))

RaceInit ==
    /\ now = 0
    /\ encryption_key = 1
    /\ fernet = Nothing
    /\ user_profiles = [u \in Users |-> ProvisionedRow(AgentOf(u), <<1>>, 0, 1)]
    /\ agent_sessions = [u \in {} |-> NoCall]
    /\ issued = 0
    /\ last_refresh_time = <<>>
    /\ env = "local"
    /\ query_rate_limit = <<>>
    /\ threads = [t \in Threads |-> IdleThread]
    /\ auth_users = {}
    /\ accepted = <<>>
    /\ chat_sessions = <<>>
    /\ ops = 0
    /\ prev = Summary(NoCall)
    /\ last = NoCall

RaceUnchanged ==
    UNCHANGED <<now, encryption_key, last_refresh_time, env, query_rate_limit,
                auth_users, accepted, chat_sessions, ops, prev, last>>

\* a thread enters its call and runs to the first external call
Begin ==
    \E t \in Threads, op \in {AUTH, REFRESH, REVOKE} :
        LET thread == [threads[t] EXCEPT !.op = op] IN
        /\ threads[t].pc = "idle"
        /\ IF op = REVOKE
           THEN /\ threads' = [threads EXCEPT ![t] = Finish(thread, ReturnNone)]
                /\ agent_sessions' = revoke_agent_session(RaceUser).sessions
           ELSE IF op = REFRESH /\ RaceUser \in DOMAIN agent_sessions
           THEN \* cached_session is read; refresh_session is next
                /\ threads' = [threads EXCEPT ![t] =
                                  [thread EXCEPT !.pc = "refresh",
                                                 !.local = Some(agent_sessions[RaceUser])]]
                /\ UNCHANGED agent_sessions
           ELSE /\ threads' = [threads EXCEPT ![t] = EnterAuthenticate(thread)]
                /\ UNCHANGED agent_sessions
        /\ UNCHANGED <<fernet, issued, user_profiles>>
        /\ RaceUnchanged

\* get_agent_credentials(user_id) returns the credentials
Credentials ==
    \E t \in Threads :
        /\ threads[t].pc = "credentials"
        /\ fernet' = get_agent_credentials(RaceUser, "ok").fernet
        /\ threads' = [threads EXCEPT ![t].pc = "signin"]
        /\ UNCHANGED <<agent_sessions, issued, user_profiles>>
        /\ RaceUnchanged

\* sign_in_with_password returns a session, which is cached
SignIn ==
    \E t \in Threads, x \in ExpiresIns :
        LET creds == get_agent_credentials(RaceUser, "ok").result.value[1]
            session_data == SessionData(issued + 1, creds[2], x, creds[1])
        IN
        /\ threads[t].pc = "signin"
        /\ issued' = issued + 1
        /\ agent_sessions' = Put(agent_sessions, RaceUser, session_data)
        /\ threads' = [threads EXCEPT ![t].pc = "touch",
                                      ![t].local = Some(session_data)]
        /\ UNCHANGED <<fernet, user_profiles>>
        /\ RaceUnchanged

\* the agent_last_used_at update, then return session_data
Touch ==
    \E t \in Threads :
        /\ threads[t].pc = "touch"
        /\ user_profiles' =
               [user_profiles EXCEPT ![RaceUser].agent_last_used_at = now]
        /\ threads' = [threads EXCEPT ![t] =
                          Finish(@, Return(threads[t].local[1]))]
        /\ UNCHANGED <<fernet, agent_sessions, issued>>
        /\ RaceUnchanged

\* refresh_session(refresh_token) answers: the new session is cached, or the
\* entry is deleted and authenticate_agent_user starts
Refresh_step ==
    \E t \in Threads, r \in RefreshOutcomes, x \in ExpiresIns :
        LET cached_session == threads[t].local[1]
            session_data == SessionData(issued + 1,
                                        cached_session.refresh_token.sub, x,
                                        cached_session.agent_user_id)
        IN
        /\ threads[t].pc = "refresh"
        /\ r # "ok" => x = 0
        /\ IF r = "ok"
           THEN /\ issued' = issued + 1
                /\ agent_sessions' = Put(agent_sessions, RaceUser, session_data)
                /\ threads' = [threads EXCEPT ![t] =
                                  Finish(@, Return(session_data))]
           ELSE IF RaceUser \in DOMAIN agent_sessions
           THEN /\ agent_sessions' = EvictForFallback(agent_sessions, RaceUser)
                /\ threads' = [threads EXCEPT ![t] =
                                  [@ EXCEPT !.pc = "credentials",
                                            !.local = Nothing]]
                /\ UNCHANGED issued
           ELSE /\ threads' = [threads EXCEPT ![t] = Finish(@, RefreshError)]
                /\ UNCHANGED <<agent_sessions, issued>>
        /\ UNCHANGED <<fernet, user_profiles>>
        /\ RaceUnchanged

RaceNext == Begin \/ Credentials \/ SignIn \/ Touch \/ Refresh_step

SpecRace == RaceInit /\ [][RaceNext]_vars

\* s is one of the sessions the auth service issued for the agent of user_id
IssuedFor(user_id, s) ==
    \E n \in 1..issued, x \in ExpiresIns :
        s = SessionData(n, generate_agent_email(user_id), x, AgentOf(user_id))

\* C15: under every interleaving, at the external calls, of
\* authenticate_agent_user, refresh_agent_session and revoke_agent_session
\* calls for one provisioned user: no call fails, every returned session is
\* one the auth service issued for the user, and once all calls have finished
\* the cache entry of the user is absent or is one of those sessions
C15_RaceFree ==
    /\ \A t \in Threads :
           threads[t].pc = "done"
           => /\ ~IsException(threads[t].result)
              /\ IsOk(threads[t].result)
                 => IssuedFor(RaceUser, threads[t].result.value[1])
    /\ (\A t \in Threads : threads[t].pc \in {"idle", "done"})
       => \/ RaceUser \notin DOMAIN agent_sessions
          \/ IssuedFor(RaceUser, agent_sessions[RaceUser])

----------------------------------------------------------------------------
(* The refresh cooldown of get_current_user over several attempts *)

MaxAttemptsInCooldown == 3     \* requests in one behaviour

\* the access token of the request is no longer valid; the refresh succeeds
\* or fails
ExpiredEnvs ==
    {[HumanNoEnv EXCEPT !.get_user = "raises", !.refresh = r] :
        r \in {"ok", "raises", "no_session"}}

\* a request with an expired access token and a refresh_token cookie reaches
\* a route that depends on get_current_user
ExpiredRequest ==
    \E rt \in RefreshTokens, e \in ExpiredEnvs :
        /\ ops < MaxAttemptsInCooldown
        /\ ops' = ops + 1
        /\ prev' = Summary(last)
        /\ last' = [op |-> GET_CURRENT_USER, user |-> "", args |-> <<"a_old", rt>>,
                    time |-> now, pre |-> Nothing,
                    result |-> get_current_user("a_old", rt, e).result,
                    calls |-> get_current_user("a_old", rt, e).calls,
                    cookies |-> get_current_user("a_old", rt, e).cookies,
                    presented |-> rt]
        /\ last_refresh_time' = get_current_user("a_old", rt, e).last_refresh_time
        /\ UNCHANGED <<now, encryption_key, fernet, user_profiles,
                       agent_sessions, issued, env, query_rate_limit, threads,
                       auth_users, accepted, chat_sessions>>

\* the clock moves by 1.5 or 3.5 seconds, so that two attempts can be
\* exactly 5 seconds apart
ExpiredTickSteps == {3, 7}

ExpiredTick ==
    \E d \in ExpiredTickSteps :
        /\ now + d <= MaxClock
        /\ now' = now + d
        /\ UNCHANGED <<encryption_key, fernet, user_profiles, agent_sessions,
                       issued, others, ops, prev, last>>

ExpiredNext == ExpiredRequest \/ ExpiredTick

SpecExpired == HumanInit /\ [][ExpiredNext]_vars

\* C29: a refresh attempt of get_current_user that the cooldown rejects
\* leaves the cooldown table as it is and reports a wait of 1 to 5 seconds;
\* the table is written only by a successful external refresh, at the prefix
\* of the presented token and with the time of the attempt; and an attempt
\* made 5 or more seconds after the time recorded for its prefix, or with
\* nothing recorded, is not rejected with 429
C29_CooldownNotExtended ==
    [][(ops' = ops + 1 /\ last'.op = GET_CURRENT_USER /\ last'.presented # "")
       => LET user_key == Prefix20(last'.presented) IN
          /\ IsHTTPError(last'.result, 429)
             => /\ last_refresh_time' = last_refresh_time
                /\ last'.result.value # Nothing
                /\ last'.result.value[1] \in 1..REFRESH_COOLDOWN_SECONDS
                /\ last'.calls = <<<<"get_user", "raises">>>>
          /\ last_refresh_time' # last_refresh_time
             => /\ IsOk(last'.result)
                /\ HasCall(last'.calls, "refresh_session", "ok")
                /\ last_refresh_time' = Put(last_refresh_time, user_key, now)
          /\ (\/ user_key \notin DOMAIN last_refresh_time
              \/ now - last_refresh_time[user_key]
                     >= REFRESH_COOLDOWN_SECONDS * TicksPerSecond)
             => ~IsHTTPError(last'.result, 429)]_vars

\* an attempt was rejected inside the cooldown, and the next attempt for the
\* same prefix, 5 seconds or more after the refresh that started the
\* cooldown, refreshes
C29_Witness ==
    /\ ops = 3
    /\ prev.op = GET_CURRENT_USER
    /\ IsHTTPError(prev.result, 429)
    /\ last.op = GET_CURRENT_USER
    /\ Prefix20(last.presented) = Prefix20(prev.args[2])
    /\ last.presented # prev.args[2]
    /\ IsOk(last.result)
    /\ last_refresh_time[Prefix20(last.presented)] = last.time
    /\ last.time = REFRESH_COOLDOWN_SECONDS * TicksPerSecond

----------------------------------------------------------------------------
(* Which token get_current_user validates *)

\* the access_token cookie of a request, "" when it has none
AccessCookies == {"", "a_old", "a_live"}

\* the Authorization header of a request as <<scheme, credentials>>, <<>>
\* when it has none
AuthHeaders ==
    {<<>>, <<"Bearer", "a_live">>, <<"Bearer", "a_old">>, <<"Basic", "a_live">>}

\* the access tokens the auth service accepts
LiveTokens == {"a_live"}

\* auth_header.startswith("Bearer ")
IsBearer(auth_header) == auth_header # <<>> /\ auth_header[1] = "Bearer"

\* _extract_token_from_request with the two sources in the other order
extract_token_header_first(cookie, auth_header) ==
    IF IsBearer(auth_header) THEN auth_header[2]
    ELSE cookie

\* _extract_token_from_request(request); "" stands for None
extract_token_from_request(cookie, auth_header) ==
    IF cookie # "" THEN cookie
    ELSE IF IsBearer(auth_header) THEN auth_header[2]
    ELSE ""

\* what get_user(access_token) can answer: the user of a live token, no user
\* for another token, or the service cannot be reached
GetUserOutcomes(access_token) ==
    IF access_token \in LiveTokens THEN {"ok", "raises"}
    ELSE {"no_user", "raises"}

\* a request reaches a route that depends on get_current_user
ProtectedRequest ==
    \E cookie \in AccessCookies, auth_header \in AuthHeaders,
       rt \in {""} \cup RefreshTokens, e \in CurrentUserEnvs :
        /\ e.expires_in = 0
        /\ extract_token_from_request(cookie, auth_header) = ""
           => (rt = "" /\ e = HumanNoEnv)
        /\ extract_token_from_request(cookie, auth_header) # ""
           => e.get_user
                  \in GetUserOutcomes(extract_token_from_request(cookie,
                                                                auth_header))
        /\ (e.get_user = "ok" \/ rt = "") => e.refresh = "ok"
        /\ HumanCall(GET_CURRENT_USER, "", <<cookie, auth_header, rt>>,
                     get_current_user(
                         extract_token_from_request(cookie, auth_header),
                         rt, e),
                     fernet, user_profiles, auth_users)

\* the requests follow one another within the same half second
SpecTokens == HumanInit /\ [][ProtectedRequest]_vars

\* C23: get_current_user returns a user only when the auth service validated
\* the access token of the request, the cookie before the Bearer header, or
\* when a refresh with the refresh_token cookie of the request succeeded, and
\* then the new auth cookies are set and the token returned is the new
\* access token; otherwise it raises 401, or 429 in the cooldown
C23_OnlyValidated ==
    last.op = GET_CURRENT_USER
    => LET cookie == last.args[1]
           auth_header == last.args[2]
           rt == last.args[3]
           token == IF cookie # "" THEN cookie
                    ELSE IF auth_header # <<>> /\ auth_header[1] = "Bearer"
                    THEN auth_header[2]
                    ELSE ""
       IN
       IF IsOk(last.result)
       THEN \/ /\ token \in LiveTokens
               /\ last.result.value[1].token = token
               /\ last.calls = <<<<"get_user", "ok">>>>
               /\ last.cookies = <<>>
            \/ /\ rt # ""
               /\ last.presented = rt
               /\ HasCall(last.calls, "refresh_session", "ok")
               /\ last.result.value[1].token = NewAccessToken
               /\ Len(last.cookies) = 2
               /\ last.cookies[1].key = "access_token"
               /\ last.cookies[1].value = NewAccessToken
               /\ last.cookies[2].key = "refresh_token"
               /\ last.cookies[2].value = NewRefreshToken
       ELSE /\ \/ IsHTTPError(last.result, 401)
               \/ IsHTTPError(last.result, 429)
            /\ last.cookies = <<>>

\* the cookie holds a dead token and the header a live one: the cookie is
\* the one checked, and the user is returned through the refresh
C23_Witness ==
    /\ last.op = GET_CURRENT_USER
    /\ last.args[1] = "a_old"
    /\ last.args[2] = <<"Bearer", "a_live">>
    /\ last.args[3] \in RefreshTokens
    /\ IsOk(last.result)
    /\ last.result.value[1].token = NewAccessToken
    /\ HasCall(last.calls, "get_user", "no_user")
    /\ last.cookies # <<>>

----------------------------------------------------------------------------
(* Users against each other, and failed sign-ins, in the session cache *)

\* the entry of v is the same in the two caches
SameEntry(s1, s2, v) ==
    /\ v \in DOMAIN s1 <=> v \in DOMAIN s2
    /\ v \in DOMAIN s1 => s1[v] = s2[v]

\* the session was issued to the agent account of user_id
OwnSession(user_id, s) ==
    /\ s.access_token.sub = generate_agent_email(user_id)
    /\ s.refresh_token.sub = generate_agent_email(user_id)
    /\ s.access_token.jti = s.refresh_token.jti
    /\ s.agent_user_id = user_profiles[user_id].agent_user_id

\* C24: for users u # v no authenticate_agent_user(u),
\* refresh_agent_session(u) or revoke_agent_session(u), successful or not,
\* changes the cache entry of v, and a session returned for u was issued to
\* u's own agent account, by a sign-in with u's credentials or a refresh with
\* the refresh token of u's entry
C24_UsersIndependent ==
    /\ \A u \in Users : \A v \in Users \ {u} :
           /\ \A e \in AuthEnvs :
                  SameEntry(authenticate_agent_user(agent_sessions, u, e).sessions,
                            agent_sessions, v)
           /\ \A e \in RefreshEnvs :
                  SameEntry(refresh_agent_session(u, e).sessions,
                            agent_sessions, v)
           /\ SameEntry(revoke_agent_session(u).sessions, agent_sessions, v)
    /\ \A u \in DOMAIN agent_sessions : OwnSession(u, agent_sessions[u])
    /\ (last.op \in {AUTH, REFRESH} /\ IsOk(last.result))
       => /\ OwnSession(last.user, last.result.value[1])
          /\ \/ SignIns(last.calls) = 1
             \/ /\ HasCall(last.calls, "refresh_session", "ok")
                /\ last.pre # Nothing
                /\ OwnSession(last.user, last.pre[1])
             \/ last.calls = <<>> /\ last.pre = Some(last.result.value[1])

\* u1's entry is revoked, or replaced by a refresh, while u2 has an entry
C24_Witness ==
    /\ last.op \in {REVOKE, REFRESH}
    /\ last.user = "u1"
    /\ last.pre # Nothing
    /\ "u2" \in DOMAIN agent_sessions
    /\ prev.user = "u2"
    /\ prev.op = AUTH
    /\ OwnSession("u2", agent_sessions["u2"])

\* C26: an authenticate_agent_user(u) that fails, for missing credentials, a
\* ciphertext that does not decrypt, a sign-in that raises or a sign-in
\* without a session, leaves the cache entry of u, present or absent, as it
\* was; and an entry exists for u only when a sign-in or a refresh for u
\* succeeded before
C26_FailedAuthKeepsCache ==
    /\ (last.op = AUTH /\ ~IsOk(last.result))
       => /\ last.pre = Nothing => last.user \notin DOMAIN agent_sessions
          /\ last.pre # Nothing
             => /\ last.user \in DOMAIN agent_sessions
                /\ agent_sessions[last.user] = last.pre[1]
    /\ \A u \in DOMAIN agent_sessions :
           /\ agent_sessions[u].access_token.jti \in 1..issued
           /\ OwnSession(u, agent_sessions[u])

\* a sign-in is refused while the cache holds an expired session of the
\* user: the session stays
C26_Witness ==
    /\ last.op = AUTH
    /\ ~IsOk(last.result)
    /\ last.pre # Nothing
    /\ SignIns(last.calls) = 1
    /\ agent_sessions[last.user] = last.pre[1]
    /\ agent_sessions[last.user].expires_at < now

\* the three calls that write the cache, and the clock
CacheNext == Authenticate \/ Refresh \/ Revoke \/ Tick

SpecCache == Init /\ [][CacheNext]_vars

\* u1 is provisioned; u2 has no agent credentials, or credentials stored
\* under a key that is no longer the key of the process
FailingInit ==
    /\ now = 0
    /\ encryption_key = 1
    /\ fernet = Nothing
    /\ user_profiles
           \in {[u \in Users |-> IF u = "u1"
                                 THEN ProvisionedRow(AgentOf(u), <<1>>, 0, 1)
                                 ELSE row] :
                   row \in {BlankRow, ProvisionedRow("a2", <<1>>, 0, 2)}}
    /\ agent_sessions = <<>>
    /\ issued = 0
    /\ OthersInit
    /\ ops = 0
    /\ prev = Summary(NoCall)
    /\ last = NoCall

SpecFailing == FailingInit /\ [][CacheNext]_vars

----------------------------------------------------------------------------
(* The request id of a request: middleware/request_id.py, the handlers of
   api/error_handlers.py and the order create_app installs them in. Starlette
   wraps the handler registered for Exception around all the middleware, and
   the handlers of the other exception classes inside it *)

MaxTraced == 3      \* requests in one behaviour

REQUEST == "request"

\* the x-request-id header of the request: <<>> when it has none
ClientRequestIds == {Nothing, Some(""), Some("client-1"), Some("client-2")}

\* what the route does with the request
RouteOutcomes ==
    {"success", "not_found", "validation_error", "http_exception",
     "api_error", "unhandled"}

\* str(uuid.uuid4()): a value no earlier request had
uuid4 == <<"uuid", ops + 1>>

\* a response: status, the x-request-id header (<<>> when not set) and
\* error.request_id of the body (<<>> when the body is no error)
Response(status, header, body_id) ==
    [status |-> status, x_request_id |-> header, error_request_id |-> body_id]

\* get_request_id(request) of error_handlers.py
get_request_id(state) == IF state = Nothing THEN "unknown" ELSE state[1]

\* the route and the handlers for APIError, HTTPException and
\* RequestValidationError, which run inside the middleware; an exception of
\* another class passes through
call_next(state, outcome) ==
    IF outcome = "success" THEN Return(Response(200, Nothing, Nothing))
    ELSE IF outcome = "not_found"
    THEN Return(Response(404, Nothing, Some(get_request_id(state))))
    ELSE IF outcome = "validation_error"
    THEN Return(Response(422, Nothing, Some(get_request_id(state))))
    ELSE IF outcome = "http_exception"
    THEN Return(Response(401, Nothing, Some(get_request_id(state))))
    ELSE IF outcome = "api_error"
    THEN Return(Response(400, Nothing, Some(get_request_id(state))))
    ELSE Raise(LibraryError)

\* request.headers.get("x-request-id") or str(uuid.uuid4())
RequestIdOf(header) ==
    IF header # Nothing /\ header[1] # "" THEN header[1] ELSE uuid4

\* RequestIDTimingMiddleware.dispatch: the state it leaves on the request
\* and the response it returns or the exception it re-raises
dispatch(header, outcome) ==
    LET request_id == RequestIdOf(header)
        inner == call_next(Some(request_id), outcome)
    IN
    IF IsException(inner)
    THEN [state |-> Some(request_id), result |-> inner]
    ELSE [state |-> Some(request_id),
          result |-> Return([inner.value[1]
                                EXCEPT !.x_request_id = Some(request_id)])]

\* the application: unhandled_exception_handler answers what dispatch
\* re-raised
app(header, outcome) ==
    LET d == dispatch(header, outcome) IN
    IF IsException(d.result)
    THEN Response(500, Nothing, Some(get_request_id(d.state)))
    ELSE d.result.value[1]

TraceInit ==
    /\ now = 0
    /\ encryption_key = 1
    /\ fernet = Nothing
    /\ user_profiles = <<>>
    /\ agent_sessions = <<>>
    /\ issued = 0
    /\ OthersInit
    /\ ops = 0
    /\ prev = Summary(NoCall)
    /\ last = NoCall

\* one request goes through the application
HandleRequest ==
    \E header \in ClientRequestIds, outcome \in RouteOutcomes :
        /\ ops < MaxTraced
        /\ ops' = ops + 1
        /\ prev' = Summary(last)
        /\ last' = [op |-> REQUEST, user |-> "", args |-> <<header, outcome>>,
                    time |-> now, pre |-> Some(uuid4),
                    result |-> Return(app(header, outcome)), calls |-> <<>>]
        /\ UNCHANGED <<now, encryption_key, fernet, user_profiles,
                       agent_sessions, issued, others>>

SpecTrace == TraceInit /\ [][HandleRequest]_vars

\* C21: whatever the outcome of a request, the response carries an
\* x-request-id header equal to the x-request-id header of the request when
\* it has a non-empty one and to a newly generated uuid otherwise, and
\* error.request_id of an error body is that same id
C21_RequestIdEverywhere ==
    last.op = REQUEST
    => LET header == last.args[1]
           response == last.result.value[1]
           expected == IF header # Nothing /\ header[1] # "" THEN header[1]
                       ELSE last.pre[1]
       IN
       /\ response.x_request_id = Some(expected)
       /\ response.status >= 400 => response.error_request_id = Some(expected)

----------------------------------------------------------------------------
(* app/tools/database_tools.py. An SQL text is a sequence of tokens: words,
   numbers, the symbols "*" and ";", and " " for white space at the ends *)

Leads == {<<>>, <<" ">>}
Verbs == {<<"SELECT">>, <<"select">>, <<"selected">>, <<"delete">>,
          <<"DROP">>, <<>>}
Columns == {<<"*">>, <<"title">>, <<"dropped">>, <<"create">>, <<>>}
Froms == {<<>>, <<"FROM", "ideas">>, <<"from", "votes">>, <<"from", "*">>}
Orders == {<<>>, <<"ORDER", "BY", "title">>,
           <<"order", "by", "title", "desc">>,
           <<"order", "by", "title", "ASC">>}
Limits == {<<>>, <<"LIMIT", "5">>, <<"limit", "all">>}
Tails == {<<>>, <<";", "DROP", "TABLE", "ideas">>,
          <<";", "delete", "from", "ideas">>}

SqlTexts ==
    {l \o v \o c \o f \o o \o m \o t :
        l \in Leads, v \in Verbs, c \in Columns, f \in Froms, o \in Orders,
        m \in Limits, t \in Tails}

\* what query.execute() does: rows, no rows, or an error of the database
ExecuteOutcomes == {"rows", "empty", "raises"}

\* str.upper() of a token
Upper(t) ==
    CASE t \in {"select", "SELECT"} -> "SELECT"
      [] t = "selected" -> "SELECTED"
      [] t = "delete" -> "DELETE"
      [] t = "dropped" -> "DROPPED"
      [] t = "create" -> "CREATE"
      [] t = "from" -> "FROM"
      [] t = "order" -> "ORDER"
      [] t = "by" -> "BY"
      [] t = "desc" -> "DESC"
      [] t = "limit" -> "LIMIT"
      [] t = "title" -> "TITLE"
      [] t = "ideas" -> "IDEAS"
      [] t = "votes" -> "VOTES"
      [] t = "all" -> "ALL"
      [] OTHER -> t

\* \w+ and \d+
IsWord(t) == t \notin {"*", ";", " "}
IsDigits(t) == t = "5"

\* str.strip()
RECURSIVE LStrip(_)
LStrip(s) == IF s # <<>> /\ s[1] = " " THEN LStrip(Tail(s)) ELSE s

\* s.startswith("SELECT") for an upper-case text
StartsWithSelect(s) == s # <<>> /\ s[1] \in {"SELECT", "SELECTED"}

dangerous ==
    {"DROP", "TRUNCATE", "ALTER", "CREATE", "GRANT", "REVOKE", "EXECUTE"}

\* validate_sql_safety(sql) without the search for dangerous keywords
validate_select_only(sql) ==
    StartsWithSelect(LStrip([i \in DOMAIN sql |-> Upper(sql[i])]))

\* validate_sql_safety(sql): is_safe
validate_sql_safety(sql) ==
    LET sql_upper == LStrip([i \in DOMAIN sql |-> Upper(sql[i])]) IN
    /\ StartsWithSelect(sql_upper)
    /\ ~\E i \in DOMAIN sql_upper : sql_upper[i] \in dangerous

\* the first index of s from i on where a match of the pattern starts, 0
\* when there is none
Search(s, i, Matches(_, _)) ==
    IF \E j \in i..Len(s) : Matches(s, j)
    THEN CHOOSE j \in i..Len(s) :
             Matches(s, j) /\ \A k \in i..(j - 1) : ~Matches(s, k)
    ELSE 0

\* \bFROM\s+(\w+)
FromAt(s, i) ==
    Upper(s[i]) = "FROM" /\ i + 1 <= Len(s) /\ IsWord(s[i + 1])

\* \bSELECT\s+(.+?)\s+FROM
SelectAt(s, i) ==
    /\ Upper(s[i]) = "SELECT"
    /\ \E j \in (i + 2)..Len(s) : Upper(s[j]) = "FROM"

ColumnsEnd(s, i) ==
    CHOOSE j \in (i + 2)..Len(s) :
        /\ Upper(s[j]) = "FROM"
        /\ \A k \in (i + 2)..(j - 1) : Upper(s[k]) # "FROM"

\* \bORDER\s+BY\s+(\w+)(?:\s+(ASC|DESC))?
OrderAt(s, i) ==
    /\ Upper(s[i]) = "ORDER"
    /\ i + 2 <= Len(s)
    /\ Upper(s[i + 1]) = "BY"
    /\ IsWord(s[i + 2])

\* \bLIMIT\s+(\d+)
LimitAt(s, i) ==
    Upper(s[i]) = "LIMIT" /\ i + 1 <= Len(s) /\ IsDigits(s[i + 1])

\* the dict execute_query_database returns
Failure(error) == [success |-> FALSE, error |-> error, results |-> <<>>,
                   row_count |-> 0]

\* execute_query_database(agent_client, sql, explanation): what it returns
\* and the calls it made on the client, each with its argument
execute_query_database(sql, db) ==
    IF ~validate_sql_safety(sql)
    THEN [result |-> Return(Failure("Unsafe SQL")), calls |-> <<>>]
    ELSE
    LET sql_clean == LStrip(sql)
        from_match == Search(sql_clean, 1, FromAt)
        select_match == Search(sql_clean, 1, SelectAt)
        columns_str ==
            IF select_match = 0 THEN <<"*">>
            ELSE SubSeq(sql_clean, select_match + 1,
                        ColumnsEnd(sql_clean, select_match) - 1)
        order_match == Search(sql_clean, 1, OrderAt)
        order_dir ==
            IF order_match # 0 /\ order_match + 3 <= Len(sql_clean)
               /\ Upper(sql_clean[order_match + 3]) \in {"ASC", "DESC"}
            THEN Upper(sql_clean[order_match + 3]) ELSE ""
        limit_match == Search(sql_clean, 1, LimitAt)
        query ==
            <<<<"table", <<sql_clean[from_match + 1]>>>>,
              <<"select", columns_str>>>>
            \o (IF order_match = 0 THEN <<>>
                ELSE <<<<"order", <<sql_clean[order_match + 2],
                                    order_dir = "DESC">>>>>>)
            \o <<<<"limit", <<IF limit_match = 0 THEN "50"
                              ELSE sql_clean[limit_match + 1]>>>>>>
    IN
    IF from_match = 0
    THEN [result |-> Return(Failure("Could not parse table name from query")),
          calls |-> <<>>]
    ELSE IF db = "raises"
    THEN [result |-> Return(Failure("str(e)")),
          calls |-> Append(query, <<"execute", <<"raises">>>>)]
    ELSE [result |-> Return([success |-> TRUE, error |-> "",
                             results |-> IF db = "rows" THEN <<"row">>
                                         ELSE <<>>,
                             row_count |-> IF db = "rows" THEN 1 ELSE 0]),
          calls |-> Append(query, <<"execute", <<db>>>>)]

EXECUTE_QUERY == "execute_query_database"

\* the llm calls the query_database tool once with some SQL text
ExecuteQuery ==
    \E sql \in SqlTexts, db \in ExecuteOutcomes :
        /\ ops = 0
        /\ ops' = ops + 1
        /\ ~(validate_sql_safety(sql) /\ Search(LStrip(sql), 1, FromAt) # 0)
           => db = "rows"
        /\ last' = [op |-> EXECUTE_QUERY, user |-> "", args |-> <<sql, db>>,
                    time |-> now, pre |-> Nothing,
                    result |-> execute_query_database(sql, db).result,
                    calls |-> execute_query_database(sql, db).calls]
        /\ UNCHANGED <<now, encryption_key, fernet, user_profiles,
                       agent_sessions, issued, others, prev>>

SpecSql == TraceInit /\ [][ExecuteQuery]_vars

\* the names of the calls made on the client, in order
CallNames(calls) == [i \in DOMAIN calls |-> calls[i][1]]

\* C22: execute_query_database only reads. For an SQL text that, trimmed and
\* in upper case, does not start with SELECT, or that has one of DROP,
\* TRUNCATE, ALTER, CREATE, GRANT, REVOKE, EXECUTE as a word, it returns
\* success = False with no results and calls nothing on the client; for any
\* other text it calls nothing or table, select, then at most one order,
\* then limit, then execute; it never raises, and an error of the database
\* gives success = False
C22_OnlyReads ==
    last.op = EXECUTE_QUERY
    => LET sql == last.args[1]
           words == {Upper(sql[i]) : i \in DOMAIN sql} \ {" "}
           first == IF \E i \in DOMAIN sql : sql[i] # " "
                    THEN Upper(sql[CHOOSE i \in DOMAIN sql :
                                       /\ sql[i] # " "
                                       /\ \A k \in 1..(i - 1) : sql[k] = " "])
                    ELSE ""
           unsafe == \/ first \notin {"SELECT", "SELECTED"}
                     \/ words \cap {"DROP", "TRUNCATE", "ALTER", "CREATE",
                                    "GRANT", "REVOKE", "EXECUTE"} # {}
       IN
       /\ IsOk(last.result)
       /\ unsafe => /\ last.result.value[1].success = FALSE
                    /\ last.result.value[1].results = <<>>
                    /\ last.calls = <<>>
       /\ CallNames(last.calls)
              \in {<<>>, <<"table", "select", "limit", "execute">>,
                   <<"table", "select", "order", "limit", "execute">>}
       /\ (last.calls # <<>> /\ last.args[2] = "raises")
          => /\ last.result.value[1].success = FALSE
             /\ last.result.value[1].results = <<>>

\* a SELECT followed by "; delete from ideas" passes the validation, and
\* what reaches the client is a select with an order and a limit
C22_Witness ==
    /\ last.op = EXECUTE_QUERY
    /\ \E i \in DOMAIN last.args[1] : last.args[1][i] = "delete"
    /\ last.result.value[1].success = TRUE
    /\ CallNames(last.calls)
           = <<"table", "select", "order", "limit", "execute">>
    /\ last.calls[3] = <<"order", <<"title", TRUE>>>>
    /\ last.calls[4] = <<"limit", <<"50">>>>

----------------------------------------------------------------------------
(* logout and the agent identity *)

\* C25: a logout with a valid access token for a user whose agent
\* credentials are stored and can be decrypted signs in as the agent at the
\* auth service and, when that gives a session, signs the agent out
C25_AgentSignedOut ==
    (/\ last.op = LOGOUT
     /\ HasCall(last.calls, "get_user", "ok")
     /\ CredentialsReadable(last.user))
    => \E i \in 1..Len(last.calls) :
           /\ last.calls[i][1] = "sign_in_with_password"
           /\ last.calls[i][2] = "ok"
              => (i < Len(last.calls) /\ last.calls[i + 1][1] = "sign_out")

\* C27: once a logout of the human user u with a valid access token has
\* completed, the agent session cache has no entry for u
C27_LogoutClearsCache ==
    (last.op = LOGOUT /\ HasCall(last.calls, "get_user", "ok"))
    => last.user \notin DOMAIN agent_sessions

----------------------------------------------------------------------------
(* app/api/routes/agent.py: POST /agent/chat and its session store. A
   conversation is the sequence of its messages, each with the user who
   sent it *)

MaxChats == 3                      \* chat requests in a behaviour

CHAT == "agent_chat"
RequestIds == {"r1", "r2"}
Messages == {"m1"}

\* f"session_{user_id}_{request_id}"
DefaultSessionId(user_id, request_id) == <<"session_", user_id, request_id>>

\* request_body.session_id, a string being the sequence of its parts: None,
\* "", one the client made up, or one the server generated
NoSessionId == [present |-> FALSE, value |-> <<>>]
Given(id) == [present |-> TRUE, value |-> id]

SessionIds ==
    {NoSessionId, Given(<<>>), Given(<<"s1">>)}
    \cup {Given(DefaultSessionId(u, "r1")) : u \in Users}

\* received_session_id or default
Or(received_session_id, default) ==
    IF received_session_id.present /\ received_session_id.value # <<>>
    THEN received_session_id.value ELSE default

\* Runner.run: the agent answers, or fails before or after the session
\* saved the new message
RunOutcomes == {"ok", "raises", "raises_saved"}

Items(store, session_id) ==
    IF session_id \in DOMAIN store THEN store[session_id] ELSE <<>>

\* agent_chat(request_body, request, current_user) once get_agent_client
\* did c: the response, the session store after it and the conversation
\* history the agent ran with (Nothing when it did not run)
agent_chat(user_id, received_session_id, request_id, message, c, run) ==
    LET session_id ==
            Or(received_session_id, DefaultSessionId(user_id, request_id))
        history == Items(chat_sessions, session_id)
        created == Put(chat_sessions, session_id, history)
        said == Append(history, <<user_id, message>>)
        failed == [success |-> FALSE,
                   session_id |-> Or(received_session_id, <<>>)]
    IN
    IF IsException(c.result)
    THEN [out |-> [c EXCEPT !.result = Return(failed)],
          store |-> chat_sessions, history |-> Nothing]
    ELSE IF run = "ok"
    THEN [out |-> [c EXCEPT !.result = Return([success |-> TRUE,
                                               session_id |-> session_id]),
                            !.calls = Append(@, <<"Runner.run", run>>)],
          store |-> Put(chat_sessions, session_id,
                        Append(said, <<"assistant", message>>)),
          history |-> Some(history)]
    ELSE [out |-> [c EXCEPT !.result = Return(failed),
                            !.calls = Append(@, <<"Runner.run", run>>)],
          store |-> IF run = "raises_saved"
                    THEN Put(chat_sessions, session_id, said) ELSE created,
          history |-> Some(history)]

\* one chat request served: q is what agent_chat did
ChatCall(u, sid, r, m, q) ==
    /\ ops < MaxChats
    /\ ops' = ops + 1
    /\ last' = [op |-> CHAT, user |-> u, args |-> <<sid, r, m>>,
                time |-> now, pre |-> q.history,
                result |-> q.out.result, calls |-> q.out.calls]
    /\ chat_sessions' = q.store
    /\ agent_sessions' = q.out.sessions
    /\ fernet' = q.out.fernet
    /\ issued' = q.out.issued
    /\ user_profiles' = q.out.user_profiles
    /\ UNCHANGED <<now, encryption_key, last_refresh_time, env,
                   query_rate_limit, threads, auth_users, accepted, prev>>

\* POST /agent/chat by an authenticated user
Chat ==
    \E u \in Users, sid \in SessionIds, r \in RequestIds, m \in Messages,
       e \in QueryEnvs, run \in RunOutcomes :
        /\ e # NoEnv => run = "ok"
        /\ ChatCall(u, sid, r, m,
                    agent_chat(u, sid, r, m, get_agent_client(u, e), run))

SpecChat == RateInit /\ [][Chat]_vars

====
